---------------------------- MODULE Spec2Model ----------------------------
(***************************************************************************)
(* Verification model of the backend-emission core of bob-build:           *)
(*   - the Android.mk orderer singleton (androidMkOrderer) together with   *)
(*     the per-module emitters that write the .inc fragments,              *)
(*   - the Android name mapper (mapAndroidNames),                          *)
(*   - the late-template pass (applyLateTemplates, match_srcs),            *)
(*   - the library emitter (androidLibraryBuildAction),                    *)
(*   - the resource emitter and the path-derived module names,             *)
(*   - the emitters that read what another module's emitter recorded,      *)
(*   - the generator rules of the Ninja and of the Android backend,        *)
(*   - the post-install command of an installed library or binary.         *)
(* Each subsystem has its own specification over the shared variables.     *)
(***************************************************************************)
EXTENDS Naturals, Integers, Sequences, FiniteSets, TLC

VARIABLES
    mods,       \* orderer: module id -> [name, kind, ear, wrapper]
    edges,      \* orderer: direct dependency edges <<parent, child>>
    emitted,    \* orderer: modules whose per-module emitter has run
    files,      \* orderer: stems of the .inc files written so far
    order,      \* orderer: the androidMkFileSlice being sorted
    collected,  \* orderer: the slice as VisitAllModules built it (history)
    sb,         \* orderer: names of the include lines buffered so far
    pc,         \* orderer: position of the run
    diag,       \* orderer: the fatal diagnostic (remaining modules and deps)
    androidInc, \* orderer: Android.inc, [written, lines]
    mreg,       \* mapper: mutator call -> [name, alt, kind, ear, srcs] of its module
    mpc,        \* mapper: mutator call -> position in mapAndroidNames
    mapLock,    \* mapper: holder of androidModuleMapLock, or "free"
    nameMap,    \* mapper: androidModuleNameMap
    reverseMap, \* mapper: androidModuleReverseMap
    mdied,      \* mapper: [died, name, existing, alt] of the collision abort
    mout,       \* mapper: mutator call's module -> the fragment it wrote
    tmod,       \* templates: the module, [name, kind, enabled, srcs]
    tprops,     \* templates: its property record, [Ldflags, Cmd]
    tin,        \* templates: the property record the latest pass started from
    tafter1,    \* templates: the property record the first pass left
    tmatched,   \* templates: nonCompiledSources of the latest pass
    tdiag,      \* templates: the fatal diagnostic, [kind, what, module]
    tpc,        \* templates: ready, ran1, ran2, died1, died2
    lmods,      \* library: module id -> [kind, tgt, installable, ear]
    ledges,     \* library: dependency edges [from, to, tag]
    lfrag,      \* library: the lines of the fragment buffer sb
    lfiles,     \* library: the fragment files written
    lpc,        \* library: ready, emitted, skipped, died
    rmod,       \* resource: the module, [name, ear, installable, files]
    rfrag,      \* resource: the lines of the fragment buffer sb
    rfiles,     \* resource: the fragment files written
    rpc,        \* resource: ready, emitted, skipped
    emods,      \* emission order: module id -> [kind, ear, name]
    erefs,      \* emission order: per module, the modules it names, in order
    erec,       \* emission order: module id -> [outputdir, includeDirs, outs]
    efrag,      \* emission order: module id -> the fragment it wrote
    eseq,       \* emission order: the emitters invoked so far, in order
    edied,      \* emission order: an emitter has aborted the run
    gmod,       \* generator: the module, [name, rsp, inouts]
    gninja,     \* generator: the build statements given to ctx.Build
    gmk,        \* generator: the lines of the Android fragment buffer sb
    gpc,        \* generator: ready, ninja, android, died
    pmod,       \* post install: [cmd, tool, args] of the module
    pout,       \* post install: the lines written for the command
    ppc         \* post install: ready, emitted

ordVars == <<mods, edges, emitted, files, order, collected, sb, pc, diag, androidInc>>
mapVars == <<mreg, mpc, mapLock, nameMap, reverseMap, mdied, mout>>
tplVars == <<tmod, tprops, tin, tafter1, tmatched, tdiag, tpc>>
libVars == <<lmods, ledges, lfrag, lfiles, lpc>>
resVars == <<rmod, rfrag, rfiles, rpc>>
eoVars == <<emods, erefs, erec, efrag, eseq, edied>>
genVars == <<gmod, gninja, gmk, gpc>>
piVars == <<pmod, pout, ppc>>
vars == <<ordVars, mapVars, tplVars, libVars, resVars, eoVars, genVars, piVars>>

\* what the actions of one subsystem leave alone
notOrdVars == <<mapVars, tplVars, libVars, resVars, eoVars, genVars, piVars>>
notMapVars == <<ordVars, tplVars, libVars, resVars, eoVars, genVars, piVars>>
notTplVars == <<ordVars, mapVars, libVars, resVars, eoVars, genVars, piVars>>
notLibVars == <<ordVars, mapVars, tplVars, resVars, eoVars, genVars, piVars>>
notResVars == <<ordVars, mapVars, tplVars, libVars, eoVars, genVars, piVars>>
notEoVars == <<ordVars, mapVars, tplVars, libVars, resVars, genVars, piVars>>
notGenVars == <<ordVars, mapVars, tplVars, libVars, resVars, eoVars, piVars>>
notPiVars == <<ordVars, mapVars, tplVars, libVars, resVars, eoVars, genVars>>


(***************************************************************************)
(* Generic helpers                                                         *)
(***************************************************************************)
Range(s) == {s[i] : i \in DOMAIN s}

Perms(S) == {p \in [1..Cardinality(S) -> S] : Range(p) = S}

\* index of the first occurrence of x in s, 0 when absent
FirstIndex(s, x) ==
    IF \E i \in DOMAIN s : s[i] = x
    THEN CHOOSE i \in DOMAIN s : s[i] = x /\ \A j \in 1..(i-1) : s[j] # x
    ELSE 0

Occurrences(s, x) == Cardinality({i \in DOMAIN s : s[i] = x})

\* Go's < on strings: strings are sequences of character codes
RECURSIVE StrLess(_, _)
StrLess(a, b) ==
    IF a = <<>> THEN b # <<>>
    ELSE IF b = <<>> THEN FALSE
    ELSE IF Head(a) # Head(b) THEN Head(a) < Head(b)
    ELSE StrLess(Tail(a), Tail(b))

(***************************************************************************)
(* Orderer: the module graph                                               *)
(***************************************************************************)
\* bounds of the orderer model
MaxEdges == 3
MaxSpecial == 1

ModuleIds == {"M1", "M2", "M3"}

\* declared names: "b", "ab", "a" (character codes 1 = a, 2 = b)
ModuleName(m) ==
    CASE m = "M1" -> <<2>>
      [] m = "M2" -> <<1, 2>>
      [] m = "M3" -> <<1>>

Kinds == {"library", "alias", "defaults", "externalLib"}

\* library stands for every kind whose emitter is guarded by
\* enabledAndRequired and writes altShortName() + ".inc"
\* wrapper: the library sets build_wrapper
PlainClass == [kind |-> "library", ear |-> TRUE, wrapper |-> FALSE]
ModuleClasses ==
    {c \in [kind : Kinds, ear : BOOLEAN, wrapper : BOOLEAN] :
        c.wrapper => c.kind = "library"}

PossibleEdges == {e \in ModuleIds \X ModuleIds : e[1] # e[2]}

\* altShortName() == altName() == outputName() == Name()
altShortName(m) == mods[m].name

\* the module types that carry altName()/altShortName()
implementsAndroidNaming(m) == mods[m].kind \in Kinds

enabledAndRequired(m) == mods[m].ear

generatesAndroidIncFile(m) ==
    IF mods[m].kind = "defaults" THEN FALSE
    ELSE IF mods[m].kind = "externalLib" THEN FALSE
    ELSE TRUE

\* the modules VisitDepsDepthFirst(m, ...) calls back for: every module
\* reachable from m through at least one dependency edge
RECURSIVE ReachFrom(_, _)
ReachFrom(frontier, seen) ==
    LET next == {e[2] : e \in {d \in edges : d[1] \in frontier}} \ seen
    IN  IF next = {} THEN seen ELSE ReachFrom(next, seen \cup next)

VisitDeps(m) == ReachFrom({m}, {})

Acyclic == \A m \in ModuleIds : m \notin VisitDeps(m)

(***************************************************************************)
(* Orderer: per-module emitters (each writes one fragment)                 *)
(***************************************************************************)
\* an androidMkWriteString that writes no file
androidMkWriteNothing(name) == files' = files

\* androidMkWriteString(ctx, name, sb): writes <build_dir>/<name>.inc
androidMkWriteString(name) == files' = files \cup {name}

\* staticActions, sharedActions, binaryActions, generateSourceActions,
\* kernelModuleActions, resourceActions, ...: nothing unless
\* enabledAndRequired; the fragment is named after altShortName()
\* androidLibraryBuildAction dies on build_wrapper before it writes
libraryActions(m) ==
    IF enabledAndRequired(m)
    THEN IF mods[m].wrapper
         THEN pc' = "emitDied" /\ UNCHANGED files
         ELSE androidMkWriteString(altShortName(m)) /\ UNCHANGED pc
    ELSE UNCHANGED <<files, pc>>

\* aliasActions: declareAlias + androidMkWriteString(ctx, m.Name(), sb)
aliasActions(m) == androidMkWriteString(mods[m].name) /\ UNCHANGED pc

\* GenerateBuildActions of one module; defaults and external libraries
\* have no emitter
EmitModule(m) ==
    /\ pc = "emit"
    /\ m \notin emitted
    /\ emitted' = emitted \cup {m}
    /\ CASE mods[m].kind = "alias" -> aliasActions(m)
         [] mods[m].kind = "library" -> libraryActions(m)
         [] OTHER -> UNCHANGED <<files, pc>>
    /\ UNCHANGED <<mods, edges, order, collected, sb, diag, androidInc, notOrdVars>>

(***************************************************************************)
(* Orderer: androidMkOrderer.GenerateBuildActions                          *)
(***************************************************************************)
\* the elements of set S in the order in which permutation p lists them
InOrder(p, S) == SelectSeq(p, LAMBDA x : x \in S)

\* deps collected by the VisitDepsDepthFirst callback for module m;
\* childOrder is the order in which the callback sees the children
CollectDeps(m, childOrder) ==
    LET kept == {c \in VisitDeps(m) :
                    /\ implementsAndroidNaming(c)
                    /\ generatesAndroidIncFile(c)
                    /\ enabledAndRequired(m)}
        seq == InOrder(childOrder, kept)
    IN  [i \in 1..Len(seq) |-> altShortName(seq[i])]

\* the VisitAllModules loop: visit lists the modules in visiting order
RECURSIVE CollectOrder(_, _, _)
CollectOrder(visit, childOrder, acc) ==
    IF visit = <<>> THEN acc
    ELSE LET m == Head(visit)
             entry == [Name |-> altShortName(m), Deps |-> CollectDeps(m, childOrder)]
             acc2 == IF /\ implementsAndroidNaming(m)
                        /\ enabledAndRequired(m)
                        /\ generatesAndroidIncFile(m)
                     THEN Append(acc, entry)
                     ELSE acc
         IN  CollectOrder(Tail(visit), childOrder, acc2)

\* the orderer singleton starts once every module has emitted
Collect ==
    /\ pc = "emit"
    /\ emitted = ModuleIds
    /\ \E visit \in Perms(ModuleIds), childOrder \in Perms(ModuleIds) :
           /\ order' = CollectOrder(visit, childOrder, <<>>)
           /\ collected' = order'
    /\ pc' = "sort"
    /\ UNCHANGED <<mods, edges, emitted, files, sb, diag, androidInc, notOrdVars>>

\* lowindex selection that forgets the len(val.Deps) == 0 test
RECURSIVE lowindexLoopIgnoringDeps(_, _, _)
lowindexLoopIgnoringDeps(ord, i, low) ==
    IF i > Len(ord) THEN low
    ELSE lowindexLoopIgnoringDeps(ord, i + 1,
            IF low = 0 \/ StrLess(ord[i].Name, ord[low].Name)
            THEN i ELSE low)

\* lowindex selection that forgets the name comparison: first ready entry
RECURSIVE lowindexLoopFirstReady(_, _, _)
lowindexLoopFirstReady(ord, i, low) ==
    IF i > Len(ord) THEN low
    ELSE lowindexLoopFirstReady(ord, i + 1,
            IF low = 0 /\ Len(ord[i].Deps) = 0
            THEN i ELSE low)

\* lowindex selection with the comparison the wrong way round
RECURSIVE lowindexLoopLargest(_, _, _)
lowindexLoopLargest(ord, i, low) ==
    IF i > Len(ord) THEN low
    ELSE lowindexLoopLargest(ord, i + 1,
            IF /\ (low = 0 \/ StrLess(ord[low].Name, ord[i].Name))
               /\ Len(ord[i].Deps) = 0
            THEN i ELSE low)

\* the inner loop selecting lowindex (0 stands for -1)
RECURSIVE lowindexLoop(_, _, _)
lowindexLoop(ord, i, low) ==
    IF i > Len(ord) THEN low
    ELSE lowindexLoop(ord, i + 1,
            IF /\ (low = 0 \/ StrLess(ord[i].Name, ord[low].Name))
               /\ Len(ord[i].Deps) = 0
            THEN i ELSE low)

lowindex(ord) == lowindexLoop(ord, 1, 0)

\* a removal loop that leaves every Deps list as it was
removeDepKeepsAll(ord, name) == ord

\* order[i].Deps = newdeps, for every i
removeDep(ord, name) ==
    [i \in 1..Len(ord) |->
        [Name |-> ord[i].Name,
         Deps |-> SelectSeq(ord[i].Deps, LAMBDA d : d # name)]]

\* append(order[:lowindex], order[lowindex+1:]...)
removeIndex(ord, k) ==
    [i \in 1..(Len(ord) - 1) |-> IF i < k THEN ord[i] ELSE ord[i + 1]]

\* one iteration of "for len(order) > 0" that finds a module to include
SortStep ==
    /\ pc = "sort"
    /\ Len(order) > 0
    /\ lowindex(order) # 0
    /\ LET low == lowindex(order)
       IN  /\ sb' = Append(sb, order[low].Name)
           /\ order' = removeIndex(removeDep(order, order[low].Name), low)
    /\ UNCHANGED <<mods, edges, emitted, files, collected, pc, diag, androidInc, notOrdVars>>

\* lowindex == -1: utils.Die("unmet or circular dependency. ...")
SortDie ==
    /\ pc = "sort"
    /\ Len(order) > 0
    /\ lowindex(order) = 0
    /\ diag' = [remaining |-> Len(order),
                lines |-> [i \in 1..Len(order) |->
                              [Name |-> order[i].Name, Deps |-> order[i].Deps]]]
    /\ pc' = "died"
    /\ UNCHANGED <<mods, edges, emitted, files, order, collected, sb, androidInc, notOrdVars>>

\* the loop has ended: fileutils.WriteIfChanged(androidmkFile, sb)
WriteAndroidInc ==
    /\ pc = "sort"
    /\ Len(order) = 0
    /\ androidInc' = [written |-> TRUE, lines |-> sb]
    /\ pc' = "done"
    /\ UNCHANGED <<mods, edges, emitted, files, order, collected, sb, diag, notOrdVars>>

NoDiag == [remaining |-> 0, lines |-> <<>>]
NoFile == [written |-> FALSE, lines |-> <<>>]

OrdInit ==
    /\ mods \in {f \in [ModuleIds -> [name : {ModuleName(m) : m \in ModuleIds},
                                       kind : Kinds, ear : BOOLEAN,
                                       wrapper : BOOLEAN]] :
                    /\ \A m \in ModuleIds : f[m].name = ModuleName(m)
                    /\ \A m \in ModuleIds :
                          [kind |-> f[m].kind, ear |-> f[m].ear,
                           wrapper |-> f[m].wrapper] \in ModuleClasses
                    /\ Cardinality({m \in ModuleIds :
                            [kind |-> f[m].kind, ear |-> f[m].ear,
                             wrapper |-> f[m].wrapper] # PlainClass})
                          <= MaxSpecial}
    /\ edges \in {E \in SUBSET PossibleEdges : Cardinality(E) <= MaxEdges}
    /\ emitted = {}
    /\ files = {}
    /\ order = <<>>
    /\ collected = <<>>
    /\ sb = <<>>
    /\ pc = "emit"
    /\ diag = NoDiag
    /\ androidInc = NoFile

OrdNext ==
    \/ \E m \in ModuleIds : EmitModule(m)
    \/ Collect
    \/ SortStep
    \/ SortDie
    \/ WriteAndroidInc

OrdIdle ==
    /\ mods = <<>> /\ edges = {} /\ emitted = {} /\ files = {}
    /\ order = <<>> /\ collected = <<>> /\ sb = <<>> /\ pc = "idle"
    /\ diag = NoDiag /\ androidInc = NoFile

(***************************************************************************)
(* Name mapper: mapAndroidNames, run in parallel across modules            *)
(***************************************************************************)
Calls == {"c1", "c2", "c3"}
DeclaredNames == {"A", "B", "C"}
\* a backend name is the declared name or is derived (an out name)
AltNames == {"A", "x"}

\* Properties.Srcs of the alias named n: one or two other declared names
AliasSrcs(n) ==
    {<<a>> : a \in DeclaredNames \ {n}}
        \cup {<<a, b>> : <<a, b>> \in {q \in (DeclaredNames \ {n}) \X (DeclaredNames \ {n}) :
                                          q[1] # q[2]}}

\* the modules the mutator and the emitters are called for; an alias has
\* no out name
MapModules ==
    {r \in [name : DeclaredNames, alt : AltNames,
            kind : {"library", "defaults"}, ear : BOOLEAN, srcs : {<<>>}] :
        r.kind = "defaults" => r.ear}

MapAliases ==
    {[name |-> n, alt |-> n, kind |-> "alias", ear |-> e, srcs |-> q] :
        <<n, e, q>> \in {t \in DeclaredNames \X BOOLEAN \X
                                 UNION {AliasSrcs(a) : a \in DeclaredNames} :
                            t[3] \in AliasSrcs(t[1])}}

\* Go's m[k] = v on a map
MapPut(f, k, v) == [x \in DOMAIN f \cup {k} |-> IF x = k THEN v ELSE f[x]]

\* androidModuleMapLock.Lock() without the mutual exclusion
lockAvailableAlways == TRUE

\* androidModuleMapLock.Lock() can return
lockAvailable == mapLock = "free"

NoCollision == [died |-> FALSE, name |-> "", existing |-> "", alt |-> ""]

\* the type tests and enabledAndRequired(ctx.Module()) before the lock
MapEnter(c) ==
    /\ mpc[c] = "start"
    /\ ~mdied.died
    /\ mpc' = [mpc EXCEPT ![c] =
                 IF mreg[c].kind = "defaults" THEN "done"
                 ELSE IF mreg[c].ear THEN "lock" ELSE "done"]
    /\ UNCHANGED <<mreg, mapLock, nameMap, reverseMap, mdied, mout, notMapVars>>

\* androidModuleMapLock.Lock()
MapLock(c) ==
    /\ mpc[c] = "lock"
    /\ ~mdied.died
    /\ lockAvailable
    /\ mapLock' = c
    /\ mpc' = [mpc EXCEPT ![c] = "check"]
    /\ UNCHANGED <<mreg, nameMap, reverseMap, mdied, mout, notMapVars>>

\* the lookup in androidModuleReverseMap and the collision test
MapCheck(c) ==
    /\ mpc[c] = "check"
    /\ ~mdied.died
    /\ IF /\ mreg[c].alt \in DOMAIN reverseMap
          /\ reverseMap[mreg[c].alt] # mreg[c].name
       THEN /\ mdied' = [died |-> TRUE, name |-> mreg[c].name,
                         existing |-> reverseMap[mreg[c].alt], alt |-> mreg[c].alt]
            /\ UNCHANGED mpc
       ELSE /\ mpc' = [mpc EXCEPT ![c] = "setName"]
            /\ UNCHANGED mdied
    /\ UNCHANGED <<mreg, mapLock, nameMap, reverseMap, mout, notMapVars>>

\* androidModuleNameMap[ctx.ModuleName()] = m.altName()
MapSetName(c) ==
    /\ mpc[c] = "setName"
    /\ ~mdied.died
    /\ nameMap' = MapPut(nameMap, mreg[c].name, mreg[c].alt)
    /\ mpc' = [mpc EXCEPT ![c] = "setReverse"]
    /\ UNCHANGED <<mreg, mapLock, reverseMap, mdied, mout, notMapVars>>

\* androidModuleReverseMap[m.altName()] = ctx.ModuleName()
MapSetReverse(c) ==
    /\ mpc[c] = "setReverse"
    /\ ~mdied.died
    /\ reverseMap' = MapPut(reverseMap, mreg[c].alt, mreg[c].name)
    /\ mpc' = [mpc EXCEPT ![c] = "unlock"]
    /\ UNCHANGED <<mreg, mapLock, nameMap, mdied, mout, notMapVars>>

\* defer androidModuleMapLock.Unlock()
MapUnlock(c) ==
    /\ mpc[c] = "unlock"
    /\ ~mdied.died
    /\ mapLock' = IF mapLock = c THEN "free" ELSE mapLock
    /\ mpc' = [mpc EXCEPT ![c] = "done"]
    /\ UNCHANGED <<mreg, nameMap, reverseMap, mdied, mout, notMapVars>>

\* declareAlias(sb, name, srcs): LOCAL_MODULE, LOCAL_REQUIRED_MODULES and
\* the .PHONY target
declareAlias(name, srcs) ==
    [module |-> name, required |-> srcs, phony |-> name]

\* the emitters run after every mutator call has returned
EmittersRun(c) ==
    /\ \A d \in Calls : mpc[d] = "done"
    /\ ~mdied.died
    /\ c \notin DOMAIN mout

\* aliasActions: declareAlias(sb, m.Name(), m.Properties.Srcs), then
\* androidMkWriteString(ctx, m.Name(), sb)
MapAliasActions(c) ==
    /\ EmittersRun(c)
    /\ mreg[c].kind = "alias"
    /\ mout' = MapPut(mout, c, [path |-> mreg[c].name,
                                frag |-> declareAlias(mreg[c].name, mreg[c].srcs)])
    /\ UNCHANGED <<mreg, mpc, mapLock, nameMap, reverseMap, mdied, notMapVars>>

\* a guarded emitter of a naming module: LOCAL_MODULE is altName() and the
\* file is altShortName() + ".inc"; the rest of the fragment is left out
MapLibraryActions(c) ==
    /\ EmittersRun(c)
    /\ mreg[c].kind = "library"
    /\ mreg[c].ear
    /\ mout' = MapPut(mout, c, [path |-> mreg[c].alt,
                                frag |-> [module |-> mreg[c].alt,
                                          required |-> <<>>, phony |-> ""]])
    /\ UNCHANGED <<mreg, mpc, mapLock, nameMap, reverseMap, mdied, notMapVars>>

MapInit ==
    /\ mreg \in {f \in [Calls -> MapModules \cup MapAliases] :
                    \A c \in Calls : f[c].kind = "alias" =>
                        /\ c = "c3"
                        /\ \A d \in Calls \ {c} : f[d].name # f[c].name}
    /\ mpc = [c \in Calls |-> "start"]
    /\ mapLock = "free"
    /\ nameMap = <<>>
    /\ reverseMap = <<>>
    /\ mdied = NoCollision
    /\ mout = <<>>

MapIdle ==
    /\ mreg = <<>> /\ mpc = <<>> /\ mapLock = "free"
    /\ nameMap = <<>> /\ reverseMap = <<>> /\ mdied = NoCollision
    /\ mout = <<>>

MapNext ==
    \/ \E c \in Calls : MapAliasActions(c)
    \/ \E c \in Calls : MapLibraryActions(c)
    \/ \E c \in Calls : MapEnter(c)
    \/ \E c \in Calls : MapLock(c)
    \/ \E c \in Calls : MapCheck(c)
    \/ \E c \in Calls : MapSetName(c)
    \/ \E c \in Calls : MapSetReverse(c)
    \/ \E c \in Calls : MapUnlock(c)

(***************************************************************************)
(* Late templates: strings, paths and globs                                *)
(***************************************************************************)
\* bounds of the late-template model
MaxSrcs == 2
MaxFlags == 2

\* A string is a sequence of pieces [t, dir, stem, ext]: literal text, a
\* rendered path, or a template call {{match_srcs "<glob>"}}.
Text(s) == [t |-> "text", dir |-> <<>>, stem |-> s, ext |-> ""]
Space == Text(" ")
MatchSrcsCall(g) == [t |-> "match_srcs", dir |-> g.dir, stem |-> g.stem, ext |-> g.ext]
CallArg(piece) == [dir |-> piece.dir, stem |-> piece.stem, ext |-> piece.ext]

\* sources: a.c, version.ld, scripts/exports.ld
SrcA == [dir |-> <<>>, stem |-> "a", ext |-> "c"]
SrcVersion == [dir |-> <<>>, stem |-> "version", ext |-> "ld"]
SrcExports == [dir |-> <<"scripts">>, stem |-> "exports", ext |-> "ld"]
SourceUniverse == {SrcA, SrcVersion, SrcExports}

\* globs: *.ld, version.ld, scripts/*.ld
GlobAnyLd == [dir |-> <<>>, stem |-> "*", ext |-> "ld"]
GlobVersion == [dir |-> <<>>, stem |-> "version", ext |-> "ld"]
GlobScripts == [dir |-> <<"scripts">>, stem |-> "*", ext |-> "ld"]

FlagUniverse ==
    {<<Text("-O2")>>,
     <<MatchSrcsCall(GlobAnyLd)>>,
     <<MatchSrcsCall(GlobVersion)>>,
     <<MatchSrcsCall(GlobScripts)>>,
     <<Text("-T"), MatchSrcsCall(GlobVersion)>>}

\* a template call {{add_if_supported "<flag>"}}
AddIfSupportedCall(flag) ==
    [t |-> "add_if_supported", dir |-> <<>>, stem |-> flag, ext |-> ""]

\* tc.checkFlagIsSupported(lang, flag): the toolchain takes -fsup as a C flag
SupportedFlags == {<<"c", "-fsup">>}
checkFlagIsSupported(lang, flag) == <<lang, flag>> \in SupportedFlags

\* compiler flags: an unsupported flag, -O2, a supported flag, "-W" + unsupported
FlagUnsup == <<AddIfSupportedCall("-funsup")>>
FlagO2 == <<Text("-O2")>>
FlagSup == <<AddIfSupportedCall("-fsup")>>
FlagMixed == <<Text("-W"), AddIfSupportedCall("-funsup")>>

SeqsUpTo(S, n) == UNION {[1..k -> S] : k \in 0..n}
NoRepeat(q) == \A i \in DOMAIN q : \A j \in DOMAIN q : i # j => q[i] # q[j]

\* path elements of a source or of a glob: directories, then the file
Elems(x) ==
    [i \in 1..(Len(x.dir) + 1) |->
        IF i <= Len(x.dir) THEN [stem |-> x.dir[i], ext |-> ""]
        ELSE [stem |-> x.stem, ext |-> x.ext]]

DoubleStar == [stem |-> "**", ext |-> ""]

\* one path element against one pattern element ("*" stands for "*.ext")
elemMatch(p, e) == (p.stem = "*" \/ p.stem = e.stem) /\ p.ext = e.ext

\* pathtools.Match(pattern, path): "**" takes zero or more directories
RECURSIVE pathtoolsMatch(_, _)
pathtoolsMatch(pat, path) ==
    IF pat = <<>> THEN path = <<>>
    ELSE IF Head(pat) = DoubleStar
    THEN \/ pathtoolsMatch(Tail(pat), path)
         \/ (Len(path) > 1 /\ pathtoolsMatch(pat, Tail(path)))
    ELSE /\ path # <<>>
         /\ elemMatch(Head(pat), Head(path))
         /\ pathtoolsMatch(Tail(pat), Tail(path))

\* the pattern without the "**/" in front
matchPatternBare(arg) == Elems(arg)

\* "**/" + arg
matchPattern(arg) == <<DoubleStar>> \o Elems(arg)

\* getBackendPathInSourceDir(g, src) with sourceDir() == "$(LOCAL_PATH)"
getBackendPathInSourceDir(src) ==
    [t |-> "path", dir |-> <<"$(LOCAL_PATH)">> \o src.dir,
     stem |-> src.stem, ext |-> src.ext]

\* strings.Join(list, " ")
RECURSIVE JoinSpace(_)
JoinSpace(list) ==
    IF Len(list) = 0 THEN <<>>
    ELSE IF Len(list) = 1 THEN <<list[1]>>
    ELSE <<list[1], Space>> \o JoinSpace(Tail(list))

\* utils.IsNotCompilableSource
IsNotCompilableSource(src) == src.ext # "c"

\* getLibrary(mctx.Module()) succeeds
getLibrary == tmod.kind = "library"

\* getMatchSourcePropNames(): Ldflags of build props, Cmd of generators
getMatchSourcePropNames ==
    IF tmod.kind = "library" THEN {"Ldflags"} ELSE {"Args", "Cmd"}

NoTplDiag == [kind |-> "none", what |-> [dir |-> <<>>, stem |-> "", ext |-> ""],
              module |-> ""]

(***************************************************************************)
(* Late templates: applyLateTemplates                                      *)
(***************************************************************************)
\* initializeNonCompiledSourceMap
initializeNonCompiledSourceMap ==
    IF getLibrary
    THEN [src \in {x \in Range(tmod.srcs) : IsNotCompilableSource(x)} |-> FALSE]
    ELSE <<>>

\* the loop of matchSources over the module's sources
RECURSIVE matchSourcesLoop(_, _, _, _)
matchSourcesLoop(arg, srcs, matched, acc) ==
    IF srcs = <<>> THEN [matched |-> matched, out |-> acc]
    ELSE IF pathtoolsMatch(matchPattern(arg), Elems(Head(srcs)))
    THEN matchSourcesLoop(arg, Tail(srcs), MapPut(matched, Head(srcs), TRUE),
                          Append(acc, getBackendPathInSourceDir(Head(srcs))))
    ELSE matchSourcesLoop(arg, Tail(srcs), matched, acc)

\* matchSources after its loop: fatal on no match, else strings.Join
matchSourcesJoin(arg, r) ==
    IF Len(r.out) = 0
    THEN [ok |-> FALSE, out |-> <<>>, matched |-> r.matched,
          diag |-> [kind |-> "nomatch", what |-> arg, module |-> tmod.name]]
    ELSE [ok |-> TRUE, out |-> JoinSpace(r.out), matched |-> r.matched,
          diag |-> NoTplDiag]

\* matchSources: the callback implementing {{match_srcs}}
matchSources(arg, matched) ==
    matchSourcesJoin(arg, matchSourcesLoop(arg, tmod.srcs, matched, <<>>))

\* checkCompilerFlag: the flag if some language takes it, else ""
checkCompilerFlag(flag, languages) ==
    IF \E i \in DOMAIN languages : checkFlagIsSupported(languages[i], flag)
    THEN <<Text(flag)>>
    ELSE <<>>

\* tmpl.Execute: literal text is copied, each call is replaced by its result
RECURSIVE executeTemplate(_, _, _, _)
RECURSIVE executeCall(_, _, _, _)
executeCall(pieces, funcmap, acc, r) ==
    IF r.ok
    THEN executeTemplate(Tail(pieces), funcmap, r.matched, acc \o r.out)
    ELSE [ok |-> FALSE, out |-> acc, matched |-> r.matched, diag |-> r.diag]

executeTemplate(pieces, funcmap, matched, acc) ==
    IF pieces = <<>>
    THEN [ok |-> TRUE, out |-> acc, matched |-> matched, diag |-> NoTplDiag]
    ELSE IF Head(pieces).t = "match_srcs"
    THEN executeCall(pieces, funcmap, acc,
                     matchSources(CallArg(Head(pieces)), matched))
    ELSE IF Head(pieces).t = "add_if_supported"
    THEN executeTemplate(Tail(pieces), funcmap, matched,
                         acc \o checkCompilerFlag(Head(pieces).stem,
                                                  funcmap["add_if_supported"]))
    ELSE executeTemplate(Tail(pieces), funcmap, matched, Append(acc, Head(pieces)))

\* elem.SetString(buf.String()): reached only when tmpl.Execute returned;
\* a callback that dies leaves the string as it was
setString(str, r) == IF r.ok THEN r ELSE [r EXCEPT !.out = str]

\* applyTemplateString: t.Parse fails on a function the funcmap lacks
applyTemplateString(str, funcmap, matched) ==
    IF \E i \in DOMAIN str :
           str[i].t \notin {"text", "path"} /\ str[i].t \notin DOMAIN funcmap
    THEN [ok |-> FALSE, out |-> str, matched |-> matched,
          diag |-> [kind |-> "parse", what |-> NoTplDiag.what, module |-> tmod.name]]
    ELSE setString(str, executeTemplate(str, funcmap, matched, <<>>))

\* the loop over the elements of a string slice
RECURSIVE applySliceLoop(_, _, _, _)
RECURSIVE applySliceElem(_, _, _, _)
applySliceElem(list, j, funcmap, r) ==
    IF r.ok
    THEN applySliceLoop([list EXCEPT ![j] = r.out], j + 1, funcmap, r.matched)
    ELSE [ok |-> FALSE, out |-> list, matched |-> r.matched, diag |-> r.diag]

applySliceLoop(list, j, funcmap, matched) ==
    IF j > Len(list)
    THEN [ok |-> TRUE, out |-> list, matched |-> matched, diag |-> NoTplDiag]
    ELSE applySliceElem(list, j, funcmap, applyTemplateString(list[j], funcmap, matched))

NonEmptyString(e) == e # <<>>

\* a stripEmptyComponents that keeps every element
stripEmptyComponentsNone(list) == list

stripEmptyComponents(list) == SelectSeq(list, NonEmptyString)

\* the end of case reflect.Slice: empty strings are dropped
applySliceStrip(r) ==
    IF r.ok /\ \E j \in DOMAIN r.out : r.out[j] = <<>>
    THEN [r EXCEPT !.out = stripEmptyComponents(r.out)]
    ELSE r

\* case reflect.Slice of applyLateTemplateRecursive
applySlice(list, funcmap, matched) ==
    applySliceStrip(applySliceLoop(list, 1, funcmap, matched))

\* the fields of the property structs, in declaration order
SliceProps == {"Ldflags", "Cflags", "Cxxflags", "Conlyflags", "Export_ldflags"}
PtrProps == {"Post_install_cmd"}
StructProps == {"Target"}
TopFields ==
    <<"Ldflags", "Cmd", "Cflags", "Cxxflags", "Conlyflags", "Export_ldflags",
      "Tool", "Post_install_cmd", "Target">>
FieldsOf(struct) == <<"Cflags", "Export_ldflags">>

\* the result of expanding the string a pointer refers to
applyPtrResult(r) == [r EXCEPT !.out = <<r.out>>]

\* case reflect.Ptr: a nil pointer is <<>>, a pointer to s is <<s>>
applyPtr(val, funcmap, matched) ==
    IF val = <<>>
    THEN [ok |-> TRUE, out |-> val, matched |-> matched, diag |-> NoTplDiag]
    ELSE applyPtrResult(applyTemplateString(val[1], funcmap, matched))

\* one leaf field of a property struct: a slice, a pointer, a string, or a
\* property without funcmap
applyField(field, val, propfnmap, matched) ==
    IF field \notin DOMAIN propfnmap
    THEN [ok |-> TRUE, out |-> val, matched |-> matched, diag |-> NoTplDiag]
    ELSE IF field \in SliceProps
    THEN applySlice(val, propfnmap[field], matched)
    ELSE IF field \in PtrProps
    THEN applyPtr(val, propfnmap[field], matched)
    ELSE applyTemplateString(val, propfnmap[field], matched)

\* the loop over the fields of one struct; a struct field recurses
RECURSIVE applyFieldLoop(_, _, _, _, _)
RECURSIVE applyFieldStep(_, _, _, _, _)
applyFieldStep(val, fields, i, propfnmap, r) ==
    IF r.ok
    THEN applyFieldLoop([val EXCEPT ![fields[i]] = r.out], fields, i + 1,
                        propfnmap, r.matched)
    ELSE [ok |-> FALSE, out |-> [val EXCEPT ![fields[i]] = r.out],
          matched |-> r.matched, diag |-> r.diag]

applyFieldLoop(val, fields, i, propfnmap, matched) ==
    IF i > Len(fields)
    THEN [ok |-> TRUE, out |-> val, matched |-> matched, diag |-> NoTplDiag]
    ELSE applyFieldStep(val, fields, i, propfnmap,
            IF fields[i] \in StructProps
            THEN applyFieldLoop(val[fields[i]], FieldsOf(fields[i]), 1,
                                propfnmap, matched)
            ELSE applyField(fields[i], val[fields[i]], propfnmap, matched))

applyRecursiveResult(r) ==
    [ok |-> r.ok, props |-> r.out, matched |-> r.matched, diag |-> r.diag]

\* applyLateTemplateRecursive over the module's property struct
applyLateTemplateRecursive(props, propfnmap, matched) ==
    applyRecursiveResult(applyFieldLoop(props, TopFields, 1, propfnmap, matched))

\* a setupMatchSources that gives every property the match_srcs function
setupMatchSourcesEveryProp ==
    [prop \in Range(TopFields) \ StructProps |-> [n \in {"match_srcs"} |-> <<>>]]

\* setupMatchSources: the funcmap of every match_srcs property
setupMatchSources ==
    [prop \in getMatchSourcePropNames |-> [n \in {"match_srcs"} |-> <<>>]]

\* addtoFuncmap: the callback fn is put under name in the funcmap of every
\* property of propList; a callback is the languages it checks, <<>> for
\* match_srcs
addtoFuncmap(propfnmap, propList, name, fn) ==
    [prop \in DOMAIN propfnmap \cup propList |->
        IF prop \notin propList THEN propfnmap[prop]
        ELSE IF prop \in DOMAIN propfnmap THEN MapPut(propfnmap[prop], name, fn)
        ELSE [n \in {name} |-> fn]]

\* mctx.Module().(moduleWithBuildProps) succeeds
moduleWithBuildProps == tmod.kind = "library"

\* setupAddIfSupported: add_if_supported for the compiler flag properties,
\* checked for C++ and C, for C++, or for C
setupAddIfSupported(propfnmap) ==
    IF moduleWithBuildProps
    THEN addtoFuncmap(
             addtoFuncmap(
                 addtoFuncmap(propfnmap, {"Cflags", "Export_cflags"},
                              "add_if_supported", <<"c++", "c">>),
                 {"Cxxflags"}, "add_if_supported", <<"c++">>),
             {"Conlyflags"}, "add_if_supported", <<"c">>)
    ELSE propfnmap

\* a verification that accepts everything
unusedSourcesNone(matched) == {}

\* verifyMatchSources: the sources it would die on
unusedSources(matched) == {src \in DOMAIN matched : ~matched[src]}

NextPass(p) == IF p = "ready" THEN "ran1" ELSE "ran2"
DiedPass(p) == IF p = "ready" THEN "died1" ELSE "died2"

\* applyLateTemplates: the recursion's outcome r, then verifyMatchSources
applyLateTemplates(r) ==
    /\ tprops' = r.props
    /\ tmatched' = r.matched
    /\ IF ~r.ok
       THEN /\ tdiag' = r.diag
            /\ tpc' = DiedPass(tpc)
            /\ UNCHANGED tafter1
       ELSE IF unusedSources(r.matched) # {}
       THEN /\ \E src \in unusedSources(r.matched) :
                  tdiag' = [kind |-> "unused", what |-> src, module |-> tmod.name]
            /\ tpc' = DiedPass(tpc)
            /\ UNCHANGED tafter1
       ELSE /\ tpc' = NextPass(tpc)
            /\ tafter1' = IF tpc = "ready" THEN r.props ELSE tafter1
            /\ UNCHANGED tdiag

\* lateTemplateMutator on the module: applyLateTemplates when enabled
LateTemplateMutator ==
    /\ tpc \in {"ready", "ran1"}
    /\ tin' = tprops
    /\ IF ~tmod.enabled
       THEN /\ tpc' = NextPass(tpc)
            /\ tafter1' = IF tpc = "ready" THEN tprops ELSE tafter1
            /\ UNCHANGED <<tprops, tmatched, tdiag>>
       ELSE applyLateTemplates(
                applyLateTemplateRecursive(tprops,
                                           setupAddIfSupported(setupMatchSources),
                                           initializeNonCompiledSourceMap))
    /\ UNCHANGED <<tmod, notTplVars>>

\* the properties besides Ldflags and Cmd
NoTarget == [Cflags |-> <<>>, Export_ldflags |-> <<>>]
NoExtra ==
    [Cflags |-> <<>>, Cxxflags |-> <<>>, Conlyflags |-> <<>>,
     Export_ldflags |-> <<>>, Tool |-> <<>>,
     Post_install_cmd |-> <<>>, Target |-> NoTarget]

Props(ld, cmd, x) ==
    [Ldflags |-> ld, Cmd |-> cmd, Cflags |-> x.Cflags,
     Cxxflags |-> x.Cxxflags, Conlyflags |-> x.Conlyflags,
     Export_ldflags |-> x.Export_ldflags, Tool |-> x.Tool,
     Post_install_cmd |-> x.Post_install_cmd, Target |-> x.Target]

NoProps == Props(<<>>, <<>>, NoExtra)

\* the other properties of a library
LibraryExtras ==
    {NoExtra,
     [Cflags |-> <<FlagUnsup, FlagO2, FlagSup>>,
      Cxxflags |-> <<FlagSup, FlagO2>>,
      Conlyflags |-> <<FlagSup, FlagUnsup>>,
      Export_ldflags |-> <<<<MatchSrcsCall(GlobVersion)>>>>,
      Tool |-> <<>>,
      Post_install_cmd |-> <<<<Text("cp "), MatchSrcsCall(GlobVersion)>>>>,
      Target |-> [Cflags |-> <<FlagUnsup, FlagO2>>,
                  Export_ldflags |-> <<<<MatchSrcsCall(GlobScripts)>>>>]],
     [Cflags |-> <<FlagUnsup, FlagUnsup>>,
      Cxxflags |-> <<FlagSup>>,
      Conlyflags |-> <<FlagO2, FlagSup>>,
      Export_ldflags |-> <<<<Text("-s")>>>>,
      Tool |-> <<>>,
      Post_install_cmd |-> <<>>,
      Target |-> [Cflags |-> <<FlagMixed>>, Export_ldflags |-> <<>>]],
     [Cflags |-> <<FlagO2>>,
      Cxxflags |-> <<FlagMixed, FlagSup>>,
      Conlyflags |-> <<>>,
      Export_ldflags |-> <<FlagUnsup>>,
      Tool |-> <<>>,
      Post_install_cmd |-> <<<<Text("true")>>>>,
      Target |-> [Cflags |-> <<FlagSup, FlagUnsup, FlagO2>>,
                  Export_ldflags |-> <<FlagUnsup>>]]}

\* the other properties of a generator
GeneratorExtras ==
    {NoExtra,
     [Cflags |-> <<>>, Cxxflags |-> <<>>, Conlyflags |-> <<>>,
      Export_ldflags |-> <<>>,
      Tool |-> <<MatchSrcsCall(GlobVersion)>>,
      Post_install_cmd |-> <<<<MatchSrcsCall(GlobAnyLd)>>>>,
      Target |-> NoTarget]}

TplInit ==
    /\ tmod \in {m \in [name : {"libfoo"}, kind : {"library", "generateSource"},
                         enabled : BOOLEAN,
                         srcs : SeqsUpTo(SourceUniverse, MaxSrcs)] : NoRepeat(m.srcs)}
    /\ \E ld \in SeqsUpTo(FlagUniverse, MaxFlags) :
       \E cmd \in FlagUniverse \cup {<<>>} :
       \E x \in LibraryExtras \cup GeneratorExtras :
           /\ IF tmod.kind = "library"
              THEN cmd = <<>> /\ x \in LibraryExtras
              ELSE ld = <<>> /\ cmd # <<>> /\ x \in GeneratorExtras
           /\ tprops = Props(ld, cmd, x)
    /\ tin = NoProps
    /\ tafter1 = NoProps
    /\ tmatched = <<>>
    /\ tdiag = NoTplDiag
    /\ tpc = "ready"

TplIdle ==
    /\ tmod = [name |-> "", kind |-> "", enabled |-> FALSE, srcs |-> <<>>]
    /\ tprops = NoProps /\ tin = NoProps /\ tafter1 = NoProps
    /\ tmatched = <<>> /\ tdiag = NoTplDiag /\ tpc = "idle"

TplNext == LateTemplateMutator

(***************************************************************************)
(* Library fragments: androidLibraryBuildAction and multilib               *)
(***************************************************************************)
\* bound on the number of dependency edges
MaxDepEdges == 2

LibIds == {"top", "d1", "d2"}
TopKinds == {"staticLibrary", "sharedLibrary", "binary"}
DepKinds == {"staticLibrary", "sharedLibrary", "externalLib",
             "generateStaticLibrary", "generateSharedLibrary"}
DepTags == {"static", "shared", "wholeStatic", "header"}

\* top depends on d1 and d2, d1 on d2: every graph is acyclic
PossibleDepEdges ==
    [from : {"top"}, to : {"d1", "d2"}, tag : DepTags]
        \cup [from : {"d1"}, to : {"d2"}, tag : DepTags]

\* a module of the graph: kind, target type, the installable flag and the
\* relative path of getAndroidInstallPath, enabledAndRequired, the
\* forwarding_shlib flag and whether build_wrapper is set
LibModule(kind, tgt, installable, rel, ear, forwarding, wrapper) ==
    [kind |-> kind, tgt |-> tgt, installable |-> installable, rel |-> rel,
     ear |-> ear, forwarding |-> forwarding, wrapper |-> wrapper]

\* a module that is not required is skipped whatever its properties are
TopModules ==
    {LibModule(k, "target", FALSE, "", FALSE, FALSE, FALSE) : k \in TopKinds}
    \cup {LibModule(c[1], c[2], FALSE, "", TRUE, FALSE, c[3]) :
             c \in TopKinds \X {"target", "host"} \X BOOLEAN}
    \cup {LibModule(c[1], c[2], TRUE, c[4], TRUE, FALSE, c[3]) :
             c \in TopKinds \X {"target", "host"} \X BOOLEAN \X {"", "sub"}}

\* only shared libraries, written or generated, can be forwarding
DepModules(tgt) ==
    {LibModule(k, tgt, FALSE, "", TRUE, FALSE, FALSE) : k \in DepKinds}
    \cup {LibModule(k, tgt, FALSE, "", TRUE, TRUE, FALSE) :
             k \in {"sharedLibrary", "generateSharedLibrary"}}

\* the tags of the link dependencies without wholeStaticDepTag
isLinkTagNoWhole(tag) == tag \in {"static", "shared"}

\* tag == staticDepTag || tag == sharedDepTag || tag == wholeStaticDepTag
isLinkTag(tag) == tag \in {"static", "shared", "wholeStatic"}

\* dep.(*generateStaticLibrary) or dep.(*generateSharedLibrary)
isGeneratedLibrary(m) ==
    lmods[m].kind \in {"generateStaticLibrary", "generateSharedLibrary"}

\* ctx.WalkDeps below parent with the visitor of linksToGeneratedLibrary:
\* TRUE when the visitor sets seenGeneratedLib somewhere in the walk
RECURSIVE WalkDeps(_)
WalkDeps(parent) ==
    \E e \in ledges :
        /\ e.from = parent
        /\ isLinkTag(e.tag)
        /\ (isGeneratedLibrary(e.to) \/ WalkDeps(e.to))

linksToGeneratedLibrary == WalkDeps("top")

\* the switch on the module type
binType(m) ==
    IF lmods[m].kind = "staticLibrary" THEN "static"
    ELSE IF lmods[m].kind = "sharedLibrary" THEN "shared"
    ELSE "executable"

\* a direct sharedDepTag dependency that is no shared library is fatal
notASharedLibrary ==
    \E e \in ledges :
        /\ e.from = "top" /\ e.tag = "shared"
        /\ lmods[e.to].kind \notin {"sharedLibrary", "generateSharedLibrary", "externalLib"}

isMultiLib ==
    /\ lmods["top"].tgt = "target"
    /\ (binType("top") = "shared" \/ binType("top") = "static" \/ lmods["top"].installable)
    /\ ~linksToGeneratedLibrary

\* one assignment of the fragment: the variable and the list of its values,
\* each value a string in pieces
Line(var, val) == [var |-> var, val |-> val]

\* writeListAssignment: nothing is written for an empty list
writeListAssignment(var, entries) ==
    IF Len(entries) > 0 THEN <<Line(var, entries)>> ELSE <<>>

\* the visit of the direct sharedDepTag dependencies counting every tag
hasForwardingLibAnyTag ==
    \E e \in ledges :
        /\ e.from = "top"
        /\ lmods[e.to].kind = "sharedLibrary"
        /\ lmods[e.to].forwarding

\* the visit of the direct sharedDepTag dependencies: a sharedLibrary with
\* isForwardingSharedLibrary sets hasForwardingLib
hasForwardingLib ==
    \E e \in ledges :
        /\ e.from = "top" /\ e.tag = "shared"
        /\ lmods[e.to].kind = "sharedLibrary"
        /\ lmods[e.to].forwarding

\* tc.getLinker().keepSharedLibraryTransitivity()
keepSharedLibraryTransitivity == "-Wl,--copy-dt-needed-entries"

copydtneeded ==
    IF hasForwardingLib
    THEN <<"-fuse-ld=bfd ", keepSharedLibraryTransitivity>>
    ELSE <<>>

\* installBase of getAndroidInstallPath
installBase == "$(TARGET_OUT)/bin"

\* filepath.Join(installBase, installRel) without the relative part
fullInstallPathBaseOnly == <<installBase>>

\* filepath.Join(installBase, installRel): empty elements are dropped
fullInstallPath ==
    IF lmods["top"].rel = "" THEN <<installBase>>
    ELSE <<installBase, "/", lmods["top"].rel>>

\* the install lines of an installable module
installLines ==
    IF binType("top") = "executable"
    THEN IF isMultiLib
         THEN <<Line("LOCAL_MODULE_PATH_32", <<fullInstallPath>>),
                Line("LOCAL_MODULE_PATH_64", <<fullInstallPath \o <<"64">> >>)>>
         ELSE <<Line("LOCAL_MODULE_PATH", << <<installBase>> >>),
                Line("LOCAL_MODULE_RELATIVE_PATH", << <<lmods["top"].rel>> >>)>>
              \o (IF lmods["top"].tgt = "target"
                  THEN <<Line("LOCAL_UNSTRIPPED_PATH",
                              << <<"$(TARGET_OUT_EXECUTABLES_UNSTRIPPED)">> >>)>>
                  ELSE <<>>)
    ELSE <<Line("LOCAL_MODULE_RELATIVE_PATH", << <<lmods["top"].rel>> >>)>>

\* the test that marks every target module that is not installable
uninstallableAnyBinType == lmods["top"].tgt = "target"

\* tgt == tgtTypeTarget && bt != binTypeShared, for a module not installable
uninstallable == lmods["top"].tgt = "target" /\ binType("top") # "shared"

\* utils.Filter(ccflags.AndroidLinkFlags, m.Properties.Ldflags) of a module
\* without ldflags, then append(ldflags, copydtneeded)
ldflags == <<>> \o <<copydtneeded>>

\* the lines of the fragment from the installation to the link libraries
fragmentLines ==
    (IF lmods["top"].installable THEN installLines
     ELSE IF uninstallable
     THEN <<Line("LOCAL_UNINSTALLABLE_MODULE", << <<"true">> >>)>>
     ELSE <<>>)
    \o (IF isMultiLib
        THEN <<Line("LOCAL_MULTILIB", << <<"both">> >>)>>
             \o writeListAssignment("LOCAL_LDFLAGS_32", ldflags)
             \o writeListAssignment("LOCAL_LDFLAGS_64", ldflags)
        ELSE writeListAssignment("LOCAL_LDFLAGS", ldflags))
    \o (IF lmods["top"].tgt = "target"
        THEN writeListAssignment("LOCAL_LDLIBS", <<>>)
        ELSE writeListAssignment("LOCAL_LDLIBS_$(HOST_OS)", <<>>))

androidLibraryBuildAction ==
    IF lmods["top"].wrapper \/ notASharedLibrary
    THEN /\ lpc' = "died"
         /\ UNCHANGED <<lfrag, lfiles>>
    ELSE /\ lfrag' = fragmentLines
         /\ lfiles' = lfiles \cup {"top"}
         /\ lpc' = "emitted"

\* staticActions, sharedActions, binaryActions share this shape
enabledAndRequiredEmitter ==
    /\ lpc = "ready"
    /\ IF lmods["top"].ear
       THEN androidLibraryBuildAction
       ELSE lpc' = "skipped" /\ UNCHANGED <<lfrag, lfiles>>
    /\ UNCHANGED <<lmods, ledges, notLibVars>>

staticActions ==
    /\ lmods["top"].kind = "staticLibrary"
    /\ enabledAndRequiredEmitter

sharedActions ==
    /\ lmods["top"].kind = "sharedLibrary"
    /\ enabledAndRequiredEmitter

binaryActions ==
    /\ lmods["top"].kind = "binary"
    /\ enabledAndRequiredEmitter

LibInit ==
    /\ \E top \in TopModules :
         \E d1 \in DepModules(top.tgt) :
            \E d2 \in DepModules(top.tgt) :
               lmods = [m \in LibIds |->
                           IF m = "top" THEN top ELSE IF m = "d1" THEN d1 ELSE d2]
    /\ ledges \in {E \in SUBSET PossibleDepEdges : Cardinality(E) <= MaxDepEdges}
    /\ lfrag = <<>>
    /\ lfiles = {}
    /\ lpc = "ready"

LibIdle ==
    /\ lmods = <<>> /\ ledges = {} /\ lfrag = <<>> /\ lfiles = {} /\ lpc = "idle"

LibNext ==
    \/ staticActions
    \/ sharedActions
    \/ binaryActions

(***************************************************************************)
(* Resource emitter: resourceActions and pathToModuleName                  *)
(***************************************************************************)
\* bound of the resource model: the longest file path that is enumerated
MaxPathLen == 3

\* a path or a name is a sequence of characters
PathChars == {"a", "_", ".", "/", "$", "(", ")"}

\* "a/b/c.conf(2)"
ExamplePath == <<"a", "/", "b", "/", "c", ".", "c", "o", "n", "f", "(", "2", ")">>

\* file paths: they start with a letter and do not end with a separator
Paths ==
    {q \in SeqsUpTo(PathChars, MaxPathLen) :
        Len(q) >= 1 /\ q[1] = "a" /\ q[Len(q)] # "/"} \cup {ExamplePath}

\* what filesToInstall returns: one file, or two different files
FileLists ==
    {<<f>> : f \in Paths}
        \cup {<<q[1], q[2]>> : q \in {t \in Paths \X Paths : t[1] # t[2]}}

\* declared names of the resource module: "r" and "a_"
ResourceNames == {<<"r">>, <<"a", "_">>}

ResModule(name, ear, installable, fs) ==
    [name |-> name, ear |-> ear, installable |-> installable, files |-> fs]

ResModules ==
    {ResModule(n, TRUE, TRUE, fs) : n \in ResourceNames, fs \in FileLists}
        \cup {ResModule(<<"r">>, e, i, <<ExamplePath>>) : e \in BOOLEAN, i \in BOOLEAN}

\* strings.Replace(s, old, new, -1) for a one-character old
RECURSIVE Replace(_, _, _)
Replace(str, old, new) ==
    IF str = <<>> THEN <<>>
    ELSE (IF Head(str) = old THEN new ELSE <<Head(str)>>)
            \o Replace(Tail(str), old, new)

\* pathToModuleName without the replacement of "$"
pathToModuleNameKeepDollar(path) ==
    Replace(Replace(Replace(Replace(path,
        "/", <<"_", "_">>), ".", <<"_">>), "(", <<"_">>), ")", <<"_">>)

\* the five replacements, in the order of the code
pathToModuleName(path) ==
    Replace(Replace(Replace(Replace(Replace(path,
        "/", <<"_", "_">>), ".", <<"_">>), "(", <<"_">>), "$", <<"_">>), ")", <<"_">>)

\* filepath.Base(file) of a path that does not end with a separator: what
\* follows the last separator
RECURSIVE Base(_)
Base(file) ==
    IF \E i \in DOMAIN file : file[i] = "/" THEN Base(Tail(file)) ELSE file

\* the block of one installed file; Properties.Tags is empty and the module
\* is not proprietary
prebuiltBlock(file) ==
    [module |-> pathToModuleName(file), stem |-> Base(file), class |-> "ETC",
     path |-> "$(TARGET_OUT)/etc", rel |-> "", src |-> file,
     required |-> <<>>, phony |-> <<>>, include |-> "$(BUILD_PREBUILT)"]

\* the block declareAlias writes
aliasBlock(a) ==
    [module |-> a.module, stem |-> <<>>, class |-> "", path |-> "", rel |-> "",
     src |-> <<>>, required |-> a.required, phony |-> a.phony,
     include |-> "$(base_rules.mk)"]

\* the loop over filesToInstall: one block per file, and its module name
\* appended to requiredModuleNames (getInstallDepPhonyNames is empty)
prebuiltBlocks(fs) == [i \in DOMAIN fs |-> prebuiltBlock(fs[i])]

requiredModuleNames(fs) == [i \in DOMAIN fs |-> pathToModuleName(fs[i])]

resourceFragment ==
    IF rmod.installable
    THEN Append(prebuiltBlocks(rmod.files),
                aliasBlock(declareAlias(rmod.name, requiredModuleNames(rmod.files))))
    ELSE <<>>

\* resourceActions: nothing unless enabledAndRequired; an empty fragment
\* for a module that is not installed; the fragment goes to
\* altShortName() + ".inc" (altShortName() is the declared name)
resourceActions ==
    /\ rpc = "ready"
    /\ IF rmod.ear
       THEN /\ rfrag' = resourceFragment
            /\ rfiles' = rfiles \cup {rmod.name}
            /\ rpc' = "emitted"
       ELSE /\ rpc' = "skipped"
            /\ UNCHANGED <<rfrag, rfiles>>
    /\ UNCHANGED <<rmod, notResVars>>

ResInit ==
    /\ rmod \in ResModules
    /\ rfrag = <<>>
    /\ rfiles = {}
    /\ rpc = "ready"

ResIdle ==
    /\ rmod = <<>> /\ rfrag = <<>> /\ rfiles = {} /\ rpc = "idle"

ResNext == resourceActions

(***************************************************************************)
(* Emission order: emitters that read what another emitter recorded        *)
(***************************************************************************)
\* three kernel modules, a source generator and a static library
EoIds == {"K1", "K2", "K3", "G", "L"}

EoKind(m) ==
    CASE m \in {"K1", "K2", "K3"} -> "kernelModule"
      [] m = "G" -> "generateSource"
      [] m = "L" -> "staticLibrary"

\* extra_symbols of K2 names K1, K3 or (wrongly) the generator G: these
\* dependencies carry kernelModuleDepTag; generated_headers of L names G
PossibleRefs == {<<"K2", "K1">>, <<"K2", "K3">>, <<"K2", "G">>, <<"L", "G">>}

\* the declarations a module graph can hold: for every module the modules
\* it names, in the order of the property list
RefTargets(m) == {r[2] : r \in {e \in PossibleRefs : e[1] = m}}

RefSeqs(m) ==
    {q \in SeqsUpTo(RefTargets(m), Cardinality(RefTargets(m))) : NoRepeat(q)}

RefLists ==
    {[m \in EoIds |-> IF m = "K2" THEN a ELSE IF m = "L" THEN b ELSE <<>>] :
        a \in RefSeqs("K2"), b \in RefSeqs("L")}

\* the direct dependencies in the order VisitDirectDepsIf calls back: the
\* order in which the property names them
DepSeq(m) == erefs[m]

RefsOf(m) == Range(DepSeq(m))

\* filepath.Join(dir, file): an empty element is dropped
Join(dir, file) == IF dir = <<>> THEN <<file>> ELSE dir \o <<"/", file>>

\* moduleOutputDir(moduleName)
moduleOutputDir(moduleName) == <<"$(dir $(ALL_MODULES.", moduleName, ".BUILT))">>

\* kernelModOutputDir(m); altName() is the declared name
kernelModOutputDir(m) == moduleOutputDir(emods[m].name)

\* sourceOutputDir(m) of a target generator
sourceOutputDir(m) == <<"$(TARGET_OUT_GEN)", "/", "STATIC_LIBRARIES", "/", emods[m].name>>

\* the fields of a module before its emitter has run
NoRecord == [outputdir |-> <<>>, includeDirs |-> <<>>, outs |-> <<>>]

\* staticLibOutputDir(m); altName() is the declared name
staticLibOutputDir(m) == moduleOutputDir(emods[m].name)

\* what the emitter of m computes for m: outputdir and outs of a kernel
\* module; outputdir, outs and includeDirs of a generator with the output
\* "out.h" and export_gen_include_dirs: ["inc"]; outputdir and outs of a
\* static library whose outputFileName() is <name>.a
recorded(m) ==
    CASE EoKind(m) = "kernelModule" ->
            [outputdir |-> kernelModOutputDir(m), includeDirs |-> <<>>,
             outs |-> <<kernelModOutputDir(m) \o <<"/", emods[m].name, ".ko">> >>]
      [] EoKind(m) = "generateSource" ->
            [outputdir |-> sourceOutputDir(m),
             includeDirs |-> <<Join(sourceOutputDir(m), "inc")>>,
             outs |-> <<Join(sourceOutputDir(m), "out.h")>>]
      [] OTHER ->
            [outputdir |-> staticLibOutputDir(m), includeDirs |-> <<>>,
             outs |-> <<staticLibOutputDir(m) \o <<"/", emods[m].name, ".a">> >>]

\* an emitter that does not store what it computed
recordNothing(m, rec) == rec

\* m.outputdir = ..., m.outs = ..., m.includeDirs = ...
record(m, rec) == [rec EXCEPT ![m] = recorded(m)]

\* extraSymbolsFiles: Module.symvers in the outputDir() of every module
\* named by extra_symbols
extraSymbolsFiles(m, rec) ==
    [i \in DOMAIN DepSeq(m) |-> Join(rec[DepSeq(m)[i]].outputdir, "Module.symvers")]

RECURSIVE ConcatAll(_)
ConcatAll(qs) == IF qs = <<>> THEN <<>> ELSE Head(qs) \o ConcatAll(Tail(qs))

\* GetGeneratedHeaders: the include dirs and the outputs of the generators
\* named by generated_headers
headerDirs(m, rec) == ConcatAll([i \in DOMAIN DepSeq(m) |-> rec[DepSeq(m)[i]].includeDirs])

headerOutputs(m, rec) == ConcatAll([i \in DOMAIN DepSeq(m) |-> rec[DepSeq(m)[i]].outs])

\* what a fragment says that depends on other modules, with the module name
eoFragment(m, rec) ==
    CASE EoKind(m) = "kernelModule" ->
            [module |-> emods[m].name, class |-> "KERNEL_MODULES",
             sources |-> << <<"$(addprefix $(LOCAL_PATH)/,$(LOCAL_SRC_FILES))">> >>
                            \o extraSymbolsFiles(m, rec),
             includes |-> <<>>, additionalDeps |-> <<>>, gendir |-> <<>>]
      [] EoKind(m) = "generateSource" ->
            [module |-> emods[m].name, class |-> "STATIC_LIBRARIES",
             sources |-> <<>>, includes |-> <<>>, additionalDeps |-> <<>>,
             gendir |-> sourceOutputDir(m)]
      [] OTHER ->
            [module |-> emods[m].name, class |-> "STATIC_LIBRARIES",
             sources |-> <<>>, includes |-> headerDirs(m, rec),
             additionalDeps |-> headerOutputs(m, rec), gendir |-> <<>>]

\* the host framework calls GenerateBuildActions of a module after that of
\* every module it depends on
depsEmitted(m) == RefsOf(m) \subseteq Range(eseq)

\* an emitter, invoked once per module: nothing unless enabledAndRequired;
\* it records the module's fields, then writes the fragment
eoEmit(m) ==
    /\ ~edied
    /\ m \notin Range(eseq)
    /\ depsEmitted(m)
    /\ eseq' = Append(eseq, m)
    /\ IF emods[m].ear
       THEN /\ erec' = record(m, erec)
            /\ efrag' = MapPut(efrag, m, eoFragment(m, erec'))
       ELSE UNCHANGED <<erec, efrag>>
    /\ UNCHANGED <<emods, erefs, edied, notEoVars>>

\* extraSymbolsModules: utils.Die("invalid extra_symbols, %s not a kernel
\* module") for a tagged dependency of another type
invalidExtraSymbols(m) == \E d \in RefsOf(m) : EoKind(d) # "kernelModule"

\* kernelModuleActions: the fields are recorded first; extraSymbolsFiles
\* runs before anything is written
kernelModuleActions(m) ==
    /\ EoKind(m) = "kernelModule"
    /\ ~edied
    /\ m \notin Range(eseq)
    /\ depsEmitted(m)
    /\ eseq' = Append(eseq, m)
    /\ IF ~emods[m].ear
       THEN UNCHANGED <<erec, efrag, edied>>
       ELSE IF invalidExtraSymbols(m)
            THEN /\ erec' = record(m, erec)
                 /\ edied' = TRUE
                 /\ UNCHANGED efrag
            ELSE /\ erec' = record(m, erec)
                 /\ efrag' = MapPut(efrag, m, eoFragment(m, erec'))
                 /\ UNCHANGED edied
    /\ UNCHANGED <<emods, erefs, notEoVars>>

generateSourceActions(m) ==
    /\ EoKind(m) = "generateSource"
    /\ eoEmit(m)

staticHeaderActions(m) ==
    /\ EoKind(m) = "staticLibrary"
    /\ eoEmit(m)

EoInit ==
    /\ emods \in [EoIds -> [name : {"k1", "k2", "k3", "g", "l"}, ear : BOOLEAN]]
    /\ emods["K1"].name = "k1" /\ emods["K2"].name = "k2"
    /\ emods["K3"].name = "k3"
    /\ emods["G"].name = "g" /\ emods["L"].name = "l"
    /\ erefs \in RefLists
    /\ erec = [m \in EoIds |-> NoRecord]
    /\ efrag = <<>>
    /\ eseq = <<>>
    /\ edied = FALSE

EoIdle ==
    /\ emods = <<>> /\ erefs = <<>> /\ erec = <<>> /\ efrag = <<>> /\ eseq = <<>>
    /\ edied = FALSE

EoNext ==
    \/ \E m \in EoIds : kernelModuleActions(m)
    \/ \E m \in EoIds : generateSourceActions(m)
    \/ \E m \in EoIds : staticHeaderActions(m)

(***************************************************************************)
(* Generator rules: generateCommonActions of the two backends              *)
(***************************************************************************)
\* bound of the generator model: the number of inouts of the module
MaxInouts == 2

\* file k of inout i
GenFile(i, k) == [io |-> i, n |-> k]

\* the inouts generateInouts can hand over for invocation i: one input, one
\* or two outputs, no or one implicit output, a depfile or none, an rspfile
\* or none
Inouts(i) ==
    [in : {<<GenFile(i, "in")>>},
     out : {<<GenFile(i, "out1")>>, <<GenFile(i, "out1"), GenFile(i, "out2")>>},
     implicitSrcs : {<<>>},
     implicitOuts : {<<>>, <<GenFile(i, "impl")>>},
     depfile : {"", "d"},
     rspfile : {"", "r"}]

InoutLists ==
    UNION {{q \in [1..k -> UNION {Inouts(i) : i \in 1..k}] :
                \A i \in 1..k : q[i] \in Inouts(i)} : k \in 1..MaxInouts}

\* the implicit dependencies m.getArgs returns: none, or the tool
GenImplicits == {<<>>, <<GenFile(0, "tool")>>}

\* the generator command; its args hold no rspfile before the loop
GenCmd == "tool ${in} ${out}"
NoArgs == [rspfile |-> ""]

\* if inout.rspfile != "" { args["rspfile"] = inout.rspfile }
setRspfile(io, args) ==
    IF io.rspfile # "" THEN [args EXCEPT !.rspfile = io.rspfile] ELSE args

\* ImplicitOutputs of the main statement, depfile or not
mainImplicitOutputsAlways(io) == io.implicitOuts

\* buildparams.ImplicitOutputs = inout.implicitOuts, without a depfile only
mainImplicitOutputs(io) == IF io.depfile = "" THEN io.implicitOuts ELSE <<>>

\* the touch statement linking the implicit outputs to the main output
touchStatements(io) ==
    IF io.depfile # "" /\ Len(io.implicitOuts) > 0
    THEN <<[rule |-> "touch", inputs |-> io.out, outputs |-> io.implicitOuts,
            implicitOutputs |-> <<>>, implicits |-> <<>>, depfile |-> "",
            args |-> NoArgs]>>
    ELSE <<>>

\* ctx.Build(pctx, buildparams)
mainStatement(io, args) ==
    [rule |-> "gen", inputs |-> io.in, outputs |-> io.out,
     implicitOutputs |-> mainImplicitOutputs(io),
     implicits |-> io.implicitSrcs \o gmod.implicits,
     depfile |-> io.depfile, args |-> args]

\* the loop over the inouts: dies on a depfile with several outputs
RECURSIVE linuxLoop(_, _, _, _)
linuxLoop(ios, i, args, stmts) ==
    IF i > Len(ios) THEN [died |-> FALSE, stmts |-> stmts]
    ELSE IF ios[i].depfile # "" /\ Len(ios[i].out) > 1
         THEN [died |-> TRUE, stmts |-> stmts]
         ELSE linuxLoop(ios, i + 1, setRspfile(ios[i], args),
                        stmts \o touchStatements(ios[i])
                              \o <<mainStatement(ios[i], setRspfile(ios[i], args))>>)

linuxResult == linuxLoop(gmod.inouts, 1, NoArgs, <<>>)

\* linuxGenerator.generateCommonActions
linuxGenerateCommonActions ==
    /\ gpc = "ready"
    /\ gninja' = linuxResult.stmts
    /\ gpc' = IF linuxResult.died THEN "died" ELSE "ninja"
    /\ UNCHANGED <<gmod, gmk, notGenVars>>

\* lines of the fragment: a target-specific variable, a rule with or
\* without a recipe, an addition to <name>_OUTPUTS
MkVar(target, var, val) ==
    [k |-> "var", target |-> target, var |-> var, val |-> val, recipe |-> FALSE]
MkRule(target, deps, recipe) ==
    [k |-> "rule", target |-> target, var |-> "", val |-> deps, recipe |-> recipe]
MkAdd(out) ==
    [k |-> "add", target |-> out, var |-> "OUTPUTS", val |-> <<out>>, recipe |-> FALSE]

\* every output and implicit output, the first output included
allOuts(io) == io.out \o io.implicitOuts

\* append(inout.out[1:], inout.implicitOuts...)
restOuts(io) == Tail(io.out) \o io.implicitOuts

\* out + ": " + outs, then <name>_OUTPUTS += out, for the other outputs
otherOutLines(outs, rest) ==
    ConcatAll([j \in DOMAIN rest |-> <<MkRule(rest[j], <<outs>>, FALSE), MkAdd(rest[j])>>])

\* the lines of one inout; the command does not name $(LOCAL_PATH) and the
\* argument map is empty
androidInoutLines(io, rsp) ==
    <<MkVar(io.out[1], "in", io.in), MkVar(io.out[1], "out", io.out)>>
        \o (IF io.depfile # "" THEN <<MkVar(io.out[1], "depfile", <<io.depfile>>)>> ELSE <<>>)
        \o (IF rsp THEN <<MkVar(io.out[1], "rspfile", <<io.rspfile>>)>> ELSE <<>>)
        \o <<MkRule(io.out[1], io.in \o io.implicitSrcs, TRUE)>>
        \o <<MkAdd(io.out[1])>>
        \o otherOutLines(io.out[1], restOuts(io))

\* a line that assigns a variable of the fragment
MkAssign(var, val) ==
    [k |-> "assign", target |-> "", var |-> var, val |-> val, recipe |-> FALSE]

\* words of the fragment that are no file of an inout: g.outputs(m), which
\* is $(<name>_OUTPUTS), and the names written in the header
GenWord(w) == GenFile(0, w)
outputs == GenWord("$(OUTPUTS)")

\* g.sourceOutputDir(m) of a target generator
genSourceOutputDir ==
    <<GenWord("$(TARGET_OUT_GEN)"), GenWord("STATIC_LIBRARIES"), GenWord(gmod.name)>>

\* the lines before the loop: include $(CLEAR_VARS), LOCAL_MODULE,
\* LOCAL_MODULE_CLASS, <name>_OUTPUTS cleared, <name>_GEN_DIR
androidHeaderLines ==
    <<[k |-> "include", target |-> "", var |-> "", val |-> <<GenWord("$(CLEAR_VARS)")>>,
       recipe |-> FALSE],
      MkAssign("LOCAL_MODULE", <<GenWord(gmod.name)>>),
      MkAssign("LOCAL_MODULE_CLASS", <<GenWord("STATIC_LIBRARIES")>>),
      [k |-> "clear", target |-> "", var |-> "OUTPUTS", val |-> <<>>,
       recipe |-> FALSE],
      MkAssign("GEN_DIR", genSourceOutputDir)>>

\* the lines after the loop: every output depends on the implicit
\* dependencies of the command, and .KATI_RESTAT
androidTrailerLines ==
    <<MkRule(outputs, gmod.implicits, FALSE),
      MkRule(GenWord(".KATI_RESTAT"), <<outputs>>, FALSE)>>

\* androidMkGenerator.generateCommonActions: the header, in which
\* <name>_OUTPUTS is cleared, then the inouts one after the other, then the
\* two rules on $(<name>_OUTPUTS)
androidGenerateCommonActions ==
    /\ gpc = "ready"
    /\ gmk' = androidHeaderLines
                \o ConcatAll([i \in DOMAIN gmod.inouts |->
                                 androidInoutLines(gmod.inouts[i], gmod.rsp)])
                \o androidTrailerLines
    /\ gpc' = "android"
    /\ UNCHANGED <<gmod, gninja, notGenVars>>

GenInit ==
    /\ gmod \in [name : {"gen"}, rsp : BOOLEAN, implicits : GenImplicits,
                  inouts : InoutLists]
    /\ gninja = <<>>
    /\ gmk = <<>>
    /\ gpc = "ready"

GenIdle ==
    /\ gmod = <<>> /\ gninja = <<>> /\ gmk = <<>> /\ gpc = "idle"

GenNext ==
    \/ linuxGenerateCommonActions
    \/ androidGenerateCommonActions

(***************************************************************************)
(* Post-install command of androidLibraryBuildAction                       *)
(***************************************************************************)
\* bound of the post-install model: the number of words of the command
MaxCmdLen == 2

\* a text is a sequence of words; a placeholder is one word
PiWords == {"run", "${tool}", "${out}", "${args}"}

PostInstallCmds == {q \in SeqsUpTo(PiWords, MaxCmdLen) : Len(q) >= 1}

\* Post_install_tool: nil, or a text
NoTool == [set |-> FALSE, text |-> <<>>]
PostInstallTools ==
    {NoTool} \cup {[set |-> TRUE, text |-> t] : t \in {<<"t">>, <<"${out}">>, <<"${tool}">>}}

\* Post_install_args: a list of texts
PostInstallArgs == {<<>>, << <<"a">> >>, << <<"${out}">> >>, << <<"${tool}">>, <<"a">> >>}

\* strings.Join(list, " ")
RECURSIVE JoinWords(_)
JoinWords(list) ==
    IF list = <<>> THEN <<>>
    ELSE IF Len(list) = 1 THEN Head(list)
    ELSE Head(list) \o <<" ">> \o JoinWords(Tail(list))

\* the args map: "tool" only when Post_install_tool is set, "out" always
postInstallKeys(m) == IF m.tool.set THEN {"tool", "out"} ELSE {"out"}

postInstallValue(m, key) ==
    IF key = "tool" THEN m.tool.text ELSE <<"$(LOCAL_INSTALLED_MODULE)">>

\* for key, value := range args { cmd = strings.Replace(cmd, "${"+key+"}", value, -1) }
\* for one iteration order of the map
RECURSIVE replaceKeys(_, _, _)
replaceKeys(m, cmd, keys) ==
    IF keys = <<>> THEN cmd
    ELSE replaceKeys(m,
                     Replace(cmd, IF Head(keys) = "tool" THEN "${tool}" ELSE "${out}",
                             postInstallValue(m, Head(keys))),
                     Tail(keys))

\* ${args} is replaced first, then the keys of the map in the given order
postInstallCmd(m, keys) ==
    replaceKeys(m, Replace(m.cmd, "${args}", JoinWords(m.args)), keys)

\* the line LOCAL_POST_INSTALL_CMD=<cmd>; the iteration order of a Go map
\* is not specified
writePostInstallCmd ==
    /\ ppc = "ready"
    /\ \E keys \in Perms(postInstallKeys(pmod)) :
          pout' = <<Line("LOCAL_POST_INSTALL_CMD", postInstallCmd(pmod, keys))>>
    /\ ppc' = "emitted"
    /\ UNCHANGED <<pmod, notPiVars>>

PiInit ==
    /\ pmod \in [cmd : PostInstallCmds, tool : PostInstallTools, args : PostInstallArgs]
    /\ pout = <<>>
    /\ ppc = "ready"

PiIdle ==
    /\ pmod = <<>> /\ pout = <<>> /\ ppc = "idle"

PiNext == writePostInstallCmd

(***************************************************************************)
(* Specifications                                                          *)
(***************************************************************************)
InitOrderer == OrdInit /\ MapIdle /\ TplIdle /\ LibIdle /\ ResIdle /\ EoIdle /\ GenIdle /\ PiIdle

SpecOrderer == InitOrderer /\ [][OrdNext]_vars

InitMapper == MapInit /\ OrdIdle /\ TplIdle /\ LibIdle /\ ResIdle /\ EoIdle /\ GenIdle /\ PiIdle

SpecMapper == InitMapper /\ [][MapNext]_vars

InitTemplates == TplInit /\ OrdIdle /\ MapIdle /\ LibIdle /\ ResIdle /\ EoIdle /\ GenIdle /\ PiIdle

SpecTemplates == InitTemplates /\ [][TplNext]_vars

InitLibrary == LibInit /\ OrdIdle /\ MapIdle /\ TplIdle /\ ResIdle /\ EoIdle /\ GenIdle /\ PiIdle

SpecLibrary == InitLibrary /\ [][LibNext]_vars

InitResource == ResInit /\ OrdIdle /\ MapIdle /\ TplIdle /\ LibIdle /\ EoIdle /\ GenIdle /\ PiIdle

SpecResource == InitResource /\ [][ResNext]_vars

InitEmissionOrder == EoInit /\ OrdIdle /\ MapIdle /\ TplIdle /\ LibIdle /\ ResIdle /\ GenIdle /\ PiIdle

SpecEmissionOrder == InitEmissionOrder /\ [][EoNext]_vars

InitGenerator ==
    GenInit /\ OrdIdle /\ MapIdle /\ TplIdle /\ LibIdle /\ ResIdle /\ EoIdle /\ PiIdle

SpecGenerator == InitGenerator /\ [][GenNext]_vars

InitPostInstall ==
    PiInit /\ OrdIdle /\ MapIdle /\ TplIdle /\ LibIdle /\ ResIdle /\ EoIdle /\ GenIdle

SpecPostInstall == InitPostInstall /\ [][PiNext]_vars

(***************************************************************************)
(* Orderer: claims                                                         *)
(***************************************************************************)
IncLines == androidInc.lines

LinePos(m) == FirstIndex(IncLines, altShortName(m))

\* modules that have an include line in the written Android.inc
Included == {m \in ModuleIds : altShortName(m) \in Range(IncLines)}

Independent(a, b) ==
    a # b /\ a \notin VisitDeps(b) /\ b \notin VisitDeps(a)

\* C1: when the orderer completes, the include line of every included
\* transitive dependency D of an included module M precedes M's line.
C1_DepsBeforeDependents ==
    pc = "done" =>
        \A m \in Included : \A d \in Included :
            d \in VisitDeps(m) => LinePos(d) < LinePos(m)

\* a completed run with a chain M -> D -> E where E is only a transitive
\* dependency of M and the names alone would have put M first
C1_Witness ==
    /\ pc = "done"
    /\ \E m \in Included : \E d \in Included : \E e \in Included :
          /\ <<m, d>> \in edges /\ <<d, e>> \in edges /\ <<m, e>> \notin edges
          /\ StrLess(altShortName(m), altShortName(e))
          /\ LinePos(e) < LinePos(d) /\ LinePos(d) < LinePos(m)

\* modules the orderer put into its slice
Eligible ==
    {m \in ModuleIds : /\ implementsAndroidNaming(m)
                       /\ enabledAndRequired(m)
                       /\ generatesAndroidIncFile(m)}

\* names of the dependencies of m that have not been included yet
Unresolved(m) ==
    {altShortName(c) : c \in {x \in VisitDeps(m) : generatesAndroidIncFile(x)}}
        \ Range(sb)

\* the diagnostic names exactly the remaining modules, each once, each with
\* exactly its unresolved dependencies
DiagnosticComplete ==
    /\ diag.remaining = Cardinality({m \in Eligible : altShortName(m) \notin Range(sb)})
    /\ Len(diag.lines) = diag.remaining
    /\ \A m \in Eligible :
          altShortName(m) \notin Range(sb) =>
              \E i \in DOMAIN diag.lines :
                  /\ diag.lines[i].Name = altShortName(m)
                  /\ Range(diag.lines[i].Deps) = Unresolved(m)
                  /\ Len(diag.lines[i].Deps) = Cardinality(Unresolved(m))
                  /\ Unresolved(m) # {}

NoReadyModule ==
    /\ pc = "sort"
    /\ Len(order) > 0
    /\ \A i \in DOMAIN order : Len(order[i].Deps) > 0

\* C2: a sort step at which modules remain and none has an empty
\* dependency list aborts: the diagnostic lists every remaining module with
\* its unresolved dependencies and Android.inc is not written.
C2_CycleAborts ==
    [][NoReadyModule =>
          (pc' = "died" /\ DiagnosticComplete' /\ androidInc' = NoFile)]_vars

\* M1 and M2 depend on each other and the run has aborted naming both
C2_Witness ==
    /\ pc = "died"
    /\ <<"M1", "M2">> \in edges /\ <<"M2", "M1">> \in edges
    /\ {"M1", "M2"} \subseteq Eligible
    /\ \E i \in DOMAIN diag.lines : \E j \in DOMAIN diag.lines :
          /\ diag.lines[i].Name = altShortName("M1")
          /\ altShortName("M2") \in Range(diag.lines[i].Deps)
          /\ diag.lines[j].Name = altShortName("M2")
          /\ altShortName("M1") \in Range(diag.lines[j].Deps)
    /\ ~androidInc.written

\* the whole sort as a function of the collected slice
RECURSIVE RunSort(_, _)
RunSort(ord, out) ==
    IF Len(ord) = 0 THEN [ok |-> TRUE, lines |-> out]
    ELSE IF lowindex(ord) = 0 THEN [ok |-> FALSE, lines |-> out]
    ELSE RunSort(removeIndex(removeDep(ord, ord[lowindex(ord)].Name), lowindex(ord)),
                 Append(out, ord[lowindex(ord)].Name))

ReferenceVisit == CHOOSE p \in Perms(ModuleIds) : TRUE

ReferenceRun == RunSort(CollectOrder(ReferenceVisit, ReferenceVisit, <<>>), <<>>)

\* C3: whatever the visiting order of the modules and the collecting order
\* of their dependencies, the run ends as the run over one fixed order ends:
\* with the same include lines, or with an abort.
C3_Deterministic ==
    /\ pc = "done" => (ReferenceRun.ok /\ IncLines = ReferenceRun.lines)
    /\ pc = "died" => ~ReferenceRun.ok

\* a completed run of three include lines whose slice was collected in
\* another order than the reference order
C3_Witness ==
    /\ pc = "done"
    /\ Len(IncLines) = 3
    /\ collected # CollectOrder(ReferenceVisit, ReferenceVisit, <<>>)

\* C4: when the orderer finishes, every fragment an emitter wrote has
\* exactly one include line in Android.inc.
C4_EveryFragmentIncludedOnce ==
    pc = "done" => \A f \in files : Occurrences(IncLines, f) = 1

\* C5 as stated: two independent included modules are ordered by name alone.
C5_IndependentByNameAlone ==
    pc = "done" =>
        \A a \in Included : \A b \in Included :
            Independent(a, b) =>
                (LinePos(a) < LinePos(b) <=> StrLess(altShortName(a), altShortName(b)))

\* C5 amended: of two independent included modules the one with the smaller
\* name comes first unless one of its own included dependencies comes after
\* the other module.
C5_IndependentByNameWhenReady ==
    pc = "done" =>
        \A a \in Included : \A b \in Included :
            (Independent(a, b) /\ StrLess(altShortName(a), altShortName(b))
                /\ LinePos(b) < LinePos(a))
            => \E d \in Included : d \in VisitDeps(a) /\ LinePos(b) < LinePos(d)

\* a completed run with independent A and B, A's name the smaller, and both
\* outcomes present: one pair ordered by name, one pair held back by a
\* dependency
C5_Witness ==
    /\ pc = "done"
    /\ \E a \in Included : \E b \in Included :
          /\ Independent(a, b)
          /\ StrLess(altShortName(a), altShortName(b))
          /\ LinePos(b) < LinePos(a)
    /\ \E a \in Included : \E b \in Included :
          /\ Independent(a, b)
          /\ StrLess(altShortName(a), altShortName(b))
          /\ LinePos(a) < LinePos(b)

\* names of the eligible modules that were ready before the k-th include
\* line was written: not yet included, every fragment-emitting transitive
\* dependency already included
ReadyAt(k) ==
    {altShortName(m) : m \in
        {x \in Eligible :
            /\ altShortName(x) \notin Range(SubSeq(sb, 1, k - 1))
            /\ \A d \in VisitDeps(x) :
                  generatesAndroidIncFile(d) =>
                      altShortName(d) \in Range(SubSeq(sb, 1, k - 1))}}

\* the orders of the eligible modules that put dependencies first
TopologicalOrders ==
    {p \in Perms(Eligible) :
        \A i \in DOMAIN p : \A j \in DOMAIN p :
            p[j] \in VisitDeps(p[i]) => j < i}

NamesOf(p) == [i \in DOMAIN p |-> altShortName(p[i])]

\* a comes before b in the lexicographic order of name sequences of the
\* same length
SeqLess(a, b) ==
    \E k \in DOMAIN a :
        /\ \A i \in 1..(k - 1) : a[i] = b[i]
        /\ StrLess(a[k], b[k])

\* C23: every include line buffered by the sort names the smallest of the
\* modules that were ready at that step, and the sequence of a completed
\* run is the lexicographically smallest topological order of the eligible
\* modules.
C23_AlphabeticTieBreak ==
    /\ pc \in {"sort", "done", "died"} =>
          \A k \in DOMAIN sb :
              /\ sb[k] \in ReadyAt(k)
              /\ \A r \in ReadyAt(k) : ~StrLess(r, sb[k])
    /\ pc = "done" =>
          \A p \in TopologicalOrders :
              NamesOf(p) = IncLines \/ SeqLess(IncLines, NamesOf(p))

\* a completed run of three modules in which two modules were ready at the
\* first step and the one with the greater name had to wait, while another
\* topological order exists
C23_Witness ==
    /\ pc = "done"
    /\ Len(IncLines) = 3
    /\ Cardinality(ReadyAt(1)) >= 2
    /\ Cardinality(TopologicalOrders) >= 2
    /\ edges # {}

\* names of the transitive dependencies of m that emit a fragment
EmittingDeps(m) == {altShortName(d) : d \in VisitDeps(m) \cap Eligible}

\* the module an entry of the slice was made for
EntryModule(e) == CHOOSE m \in ModuleIds : altShortName(m) = e.Name

\* C24: the dependency list the orderer computes for an eligible module
\* holds only names of transitive dependencies that emit a fragment; a
\* dependency that emits none has no entry in it.
C24_DepsEmitFragments ==
    \A i \in DOMAIN collected :
        Range(collected[i].Deps) \subseteq EmittingDeps(EntryModule(collected[i]))

\* C29: every include line of the written Android.inc names a fragment
\* file that an emitter wrote in this run.
C29_NoDanglingInclude ==
    pc = "done" => \A i \in DOMAIN IncLines : IncLines[i] \in files

\* a written Android.inc of three lines, one of them for an alias
C29_Witness ==
    /\ pc = "done"
    /\ Len(IncLines) = 3
    /\ \E m \in Included : mods[m].kind = "alias"
    /\ \A m \in Included : altShortName(m) \in files

\* C14: a run that aborts with a fatal diagnostic has written no output
\* file before the abort, neither a module fragment nor Android.inc.
C14_NoWriteBeforeAbort ==
    pc \in {"died", "emitDied"} => (files = {} /\ androidInc = NoFile)

(***************************************************************************)
(* Name mapper: claims                                                     *)
(***************************************************************************)
\* calls that have passed the collision test
PastCheck == {c \in Calls : mpc[c] \in {"setName", "setReverse", "unlock", "done"}
                              /\ mreg[c].kind # "defaults" /\ mreg[c].ear}

\* C6: under every interleaving of the mutator calls, no call gets past the
\* collision test while its alt name is registered to another declared name
\* (it aborts instead), and as long as no abort occurred two distinct
\* registered declared names have different backend names.
C6_MapperBijection ==
    /\ ~mdied.died =>
          \A n1 \in DOMAIN nameMap : \A n2 \in DOMAIN nameMap :
              n1 # n2 => nameMap[n1] # nameMap[n2]
    /\ \A c \in PastCheck :
          mreg[c].alt \in DOMAIN reverseMap => reverseMap[mreg[c].alt] = mreg[c].name
    /\ mdied.died =>
          /\ mdied.name # mdied.existing
          /\ reverseMap[mdied.alt] = mdied.existing

\* two calls for different declared names with the same alt name ran
\* concurrently: one registered, the other aborted on the collision while a
\* third call was still waiting for the lock
C6_Witness ==
    /\ mdied.died
    /\ \E c \in Calls : \E d \in Calls :
          /\ mpc[c] = "done" /\ mreg[c].name = mdied.existing
          /\ mpc[d] = "check" /\ mreg[d].name = mdied.name
          /\ mreg[c].alt = mreg[d].alt
    /\ \E e \in Calls : mpc[e] = "lock"

\* androidModuleName(name): the lookup in androidModuleNameMap, "" for a name
\* that is not registered
androidModuleName(name) ==
    IF name \in DOMAIN nameMap THEN nameMap[name] ELSE ""

androidModuleNames(names) ==
    [i \in DOMAIN names |-> androidModuleName(names[i])]

AliasesWritten == {c \in DOMAIN mout : mreg[c].kind = "alias"}

\* C13: the LOCAL_REQUIRED_MODULES list of a written alias fragment whose
\* sources are all registered in the name mapper is the source list with
\* every declared name replaced by its backend name, in source-list order.
C13_AliasRemapped ==
    \A c \in AliasesWritten :
        Range(mreg[c].srcs) \subseteq DOMAIN nameMap =>
            mout[c].frag.required = androidModuleNames(mreg[c].srcs)

\* C16: in a run that passed the collision check, the emitters of two
\* modules with different declared names never write the same .inc path.
C16_DistinctFiles ==
    \A c \in DOMAIN mout : \A d \in DOMAIN mout :
        mreg[c].name # mreg[d].name => mout[c].path # mout[d].path


(***************************************************************************)
(* Late templates: claims                                                  *)
(***************************************************************************)
Completed == tpc \in {"ran1", "ran2"}
Died == tpc \in {"died1", "died2"}

\* src's tail matches the glob: some suffix of its directories is the
\* glob's directories, and the file name fits
MatchesTail(g, src) ==
    /\ \E k \in 0..Len(src.dir) : SubSeq(src.dir, k + 1, Len(src.dir)) = g.dir
    /\ (g.stem = "*" \/ g.stem = src.stem)
    /\ g.ext = src.ext

Hits(g) == SelectSeq(tmod.srcs, LAMBDA src : MatchesTail(g, src))

ExpectedExpansion(g) ==
    [i \in 1..(2 * Len(Hits(g)) - 1) |->
        IF i % 2 = 1
        THEN [t |-> "path", dir |-> <<"$(LOCAL_PATH)">> \o Hits(g)[(i + 1) \div 2].dir,
              stem |-> Hits(g)[(i + 1) \div 2].stem, ext |-> Hits(g)[(i + 1) \div 2].ext]
        ELSE Text(" ")]

RECURSIVE ExpectedString(_)
ExpectedString(str) ==
    IF str = <<>> THEN <<>>
    ELSE (IF Head(str).t = "match_srcs"
          THEN ExpectedExpansion(CallArg(Head(str)))
          ELSE <<Head(str)>>) \o ExpectedString(Tail(str))

GlobsIn(str) == {CallArg(str[i]) : i \in {j \in DOMAIN str : str[j].t = "match_srcs"}}

\* the globs of the match_srcs calls the latest pass started from
CallGlobs ==
    IF tmod.kind = "library"
    THEN UNION {GlobsIn(tin.Ldflags[j]) : j \in DOMAIN tin.Ldflags}
    ELSE GlobsIn(tin.Cmd)

\* C7: a second run of the late templates after a successful first run
\* also succeeds and leaves every property as the first run left it.
C7_SecondRunIdempotent ==
    /\ tpc # "died2"
    /\ (tpc = "ran2" => tprops = tafter1)

\* C8: every {{match_srcs glob}} of a completed pass was replaced by the
\* sources whose tail matches the glob, in source order, as backend paths
\* joined by single spaces; a call with no matching source makes the pass
\* die with a diagnostic naming that glob and the module.
C8_MatchSrcsResult ==
    /\ (Completed /\ tmod.enabled /\ tmod.kind = "library") =>
           /\ Len(tprops.Ldflags) = Len(tin.Ldflags)
           /\ \A j \in DOMAIN tin.Ldflags :
                  tprops.Ldflags[j] = ExpectedString(tin.Ldflags[j])
    /\ (Completed /\ tmod.enabled /\ tmod.kind = "generateSource") =>
           tprops.Cmd = ExpectedString(tin.Cmd)
    /\ (tmod.enabled /\ (Completed \/ Died)) =>
           ((\E g \in CallGlobs : Hits(g) = <<>>) <=> tdiag.kind = "nomatch")
    /\ (tdiag.kind = "nomatch") =>
           /\ Died
           /\ tdiag.module = tmod.name
           /\ tdiag.what \in CallGlobs
           /\ Hits(tdiag.what) = <<>>

\* a completed pass expanded {{match_srcs "*.ld"}} to two sources, one of
\* them in a subdirectory
C8_Witness ==
    /\ tpc = "ran1" /\ tmod.enabled /\ tmod.kind = "library"
    /\ SrcExports \in Range(tmod.srcs)
    /\ \E j \in DOMAIN tin.Ldflags :
          /\ tin.Ldflags[j] = <<MatchSrcsCall(GlobAnyLd)>>
          /\ Len(tprops.Ldflags[j]) = 3

\* C9: the pass of an enabled library completes only if every non-compiled
\* source was matched by some match_srcs call of that pass; a source left
\* unmatched makes the pass die.
C9_NonCompiledConsumed ==
    /\ (Completed /\ tmod.enabled /\ tmod.kind = "library") =>
           \A src \in Range(tmod.srcs) :
               IsNotCompilableSource(src) => \E g \in CallGlobs : MatchesTail(g, src)
    /\ (tdiag.kind = "unused") =>
           /\ Died
           /\ tdiag.what \in Range(tmod.srcs)
           /\ IsNotCompilableSource(tdiag.what)
           /\ ~ \E g \in CallGlobs : MatchesTail(g, tdiag.what)

\* an enabled library with a compiled and a non-compiled source completed
C9_Witness ==
    /\ tpc = "ran1" /\ tmod.enabled /\ tmod.kind = "library"
    /\ SrcA \in Range(tmod.srcs)
    /\ \E src \in Range(tmod.srcs) : IsNotCompilableSource(src) /\ tmatched[src]


\* the leaf properties that get no function map for this module
NoFuncmapProps ==
    (Range(TopFields) \ StructProps)
    \ (getMatchSourcePropNames
       \cup (IF tmod.kind = "library"
             THEN {"Cflags", "Export_cflags", "Cxxflags", "Conlyflags"}
             ELSE {}))

\* C25: a pass, finished or aborted, leaves every property without function
\* map as it found it, at the top of the property struct and in the nested
\* struct, whatever template text it holds; and the pass of a module that
\* is not enabled leaves every property as it found it.
C25_Frame ==
    tpc \in {"ran1", "ran2", "died1", "died2"} =>
        /\ \A f \in NoFuncmapProps : tprops[f] = tin[f]
        /\ \A f \in NoFuncmapProps \cap Range(FieldsOf("Target")) :
               tprops.Target[f] = tin.Target[f]
        /\ (~tmod.enabled => tprops = tin)

\* an enabled library finished a pass that expanded Ldflags and the nested
\* Cflags while Export_ldflags, at both depths, and Post_install_cmd hold
\* match_srcs calls
C25_Witness ==
    /\ tpc = "ran1" /\ tmod.enabled /\ tmod.kind = "library"
    /\ \E j \in DOMAIN tin.Export_ldflags : GlobsIn(tin.Export_ldflags[j]) # {}
    /\ \E j \in DOMAIN tin.Target.Export_ldflags :
           GlobsIn(tin.Target.Export_ldflags[j]) # {}
    /\ tin.Post_install_cmd # <<>>
    /\ GlobsIn(tin.Post_install_cmd[1]) # {}
    /\ tprops.Ldflags # tin.Ldflags
    /\ tprops.Target.Cflags # tin.Target.Cflags

\* the languages a flag property is checked for
LanguagesOf(prop) ==
    CASE prop = "Cxxflags" -> {"c++"}
      [] prop = "Conlyflags" -> {"c"}
      [] OTHER -> {"c", "c++"}

\* the flag is accepted for one of the languages
Accepted(flag, langs) == \E lang \in langs : <<lang, flag>> \in SupportedFlags

\* the expansion of one compiler flag string
RECURSIVE ExpectedFlag(_, _)
ExpectedFlag(str, langs) ==
    IF str = <<>> THEN <<>>
    ELSE (IF Head(str).t = "add_if_supported"
          THEN (IF Accepted(Head(str).stem, langs)
                THEN <<Text(Head(str).stem)>> ELSE <<>>)
          ELSE <<Head(str)>>) \o ExpectedFlag(Tail(str), langs)

\* the non-empty strings of a list, in the list's order
NonEmptyOf(list) == SelectSeq(list, LAMBDA e : e # <<>>)

ExpectedFlags(list, prop) ==
    NonEmptyOf([j \in DOMAIN list |-> ExpectedFlag(list[j], LanguagesOf(prop))])

\* C26: after a completed pass of an enabled library every slice property
\* with a function map (Ldflags, Cflags, Cxxflags, Conlyflags, the nested
\* Cflags) holds exactly the non-empty expansions of the elements it had
\* before, in their order; a flag is kept when the toolchain takes it for a
\* language of its property.
C26_SliceStripped ==
    (Completed /\ tmod.enabled /\ tmod.kind = "library") =>
        /\ \A prop \in {"Cflags", "Cxxflags", "Conlyflags"} :
               tprops[prop] = ExpectedFlags(tin[prop], prop)
        /\ tprops.Target.Cflags = ExpectedFlags(tin.Target.Cflags, "Cflags")
        /\ tprops.Ldflags =
               NonEmptyOf([j \in DOMAIN tin.Ldflags |-> ExpectedString(tin.Ldflags[j])])

\* a completed pass removed the unsupported flag in front of two flags
\* that stayed, in their order
C26_Witness ==
    /\ tpc = "ran1" /\ tmod.enabled /\ tmod.kind = "library"
    /\ tin.Cflags = <<FlagUnsup, FlagO2, FlagSup>>
    /\ tprops.Cflags = <<<<Text("-O2")>>, <<Text("-fsup")>>>>
    /\ tin.Cxxflags = <<FlagSup, FlagO2>>
    /\ tprops.Cxxflags = <<<<Text("-O2")>>>>
    /\ tprops.Conlyflags = <<<<Text("-fsup")>>>>

(***************************************************************************)
(* Library fragments: claims                                               *)
(***************************************************************************)
\* a chain of link dependencies from the emitted module
LinkChain(p) ==
    /\ Len(p) >= 2
    /\ p[1] = "top"
    /\ \A i \in 1..(Len(p) - 1) :
          \E tag \in {"static", "shared", "wholeStatic"} :
              [from |-> p[i], to |-> p[i + 1], tag |-> tag] \in ledges

ReachesGeneratedLibrary ==
    \E p \in SeqsUpTo(LibIds, Cardinality(LibIds)) :
        /\ LinkChain(p)
        /\ lmods[p[Len(p)]].kind \in {"generateStaticLibrary", "generateSharedLibrary"}

\* C10: an emitted fragment has LOCAL_MULTILIB:=both exactly when the
\* module is a target module, is a static library, a shared library or an
\* installable binary, and reaches no generated static or shared library
\* through a chain of static, shared or whole-static dependencies.
C10_MultilibRule ==
    lpc = "emitted" =>
        ((Line("LOCAL_MULTILIB", << <<"both">> >>) \in Range(lfrag)) <=>
            /\ lmods["top"].tgt = "target"
            /\ \/ lmods["top"].kind \in {"staticLibrary", "sharedLibrary"}
               \/ (lmods["top"].kind = "binary" /\ lmods["top"].installable)
            /\ ~ReachesGeneratedLibrary)

\* a target library that would be multilib emitted its fragment without
\* LOCAL_MULTILIB:=both because it reaches a generated library two links
\* down, the first of them a whole-static link
C10_Witness ==
    /\ lpc = "emitted"
    /\ lmods["top"].tgt = "target"
    /\ lmods["top"].kind = "sharedLibrary"
    /\ [from |-> "top", to |-> "d1", tag |-> "wholeStatic"] \in ledges
    /\ ~isGeneratedLibrary("d1")
    /\ \E tag \in {"static", "shared"} : [from |-> "d1", to |-> "d2", tag |-> tag] \in ledges
    /\ isGeneratedLibrary("d2")
    /\ Line("LOCAL_MULTILIB", << <<"both">> >>) \notin Range(lfrag)


\* the values assigned to a variable of the fragment, over all its lines
ValuesOf(var) == UNION {Range(l.val) : l \in {x \in Range(lfrag) : x.var = var}}

Assigned(var) == \E l \in Range(lfrag) : l.var = var

LdflagsVars == {"LOCAL_LDFLAGS", "LOCAL_LDFLAGS_32", "LOCAL_LDFLAGS_64"}

ForwardingFlag == <<"-fuse-ld=bfd ", "-Wl,--copy-dt-needed-entries">>

\* a direct shared-library dependency of the given kind that is forwarding
DirectForwarding(kind) ==
    \E d \in LibIds :
        /\ [from |-> "top", to |-> d, tag |-> "shared"] \in ledges
        /\ lmods[d].kind = kind
        /\ lmods[d].forwarding

\* C11: the ldflags of an emitted fragment contain -fuse-ld=bfd with the
\* linker's keep-transitivity option exactly when some direct shared
\* dependency is a shared library that declares itself forwarding.
C11_ForwardingFlag ==
    lpc = "emitted" =>
        /\ \E var \in LdflagsVars : Assigned(var)
        /\ \A var \in LdflagsVars :
              Assigned(var) =>
                  (ForwardingFlag \in ValuesOf(var) <=> DirectForwarding("sharedLibrary"))

\* a multilib fragment was emitted with the flag in both ldflags lists: d1,
\* a forwarding shared library, hangs on a shared edge
C11_Witness ==
    /\ lpc = "emitted"
    /\ lmods["d1"].kind = "sharedLibrary"
    /\ ForwardingFlag \in ValuesOf("LOCAL_LDFLAGS_32")
    /\ ForwardingFlag \in ValuesOf("LOCAL_LDFLAGS_64")
    /\ [from |-> "top", to |-> "d1", tag |-> "shared"] \in ledges
    /\ lmods["d1"].forwarding

\* C12: a library or binary with a direct shared dependency on a generated
\* shared library that is forwarding is never emitted: its emitter dies
\* and writes no fragment.
C12_GeneratedForwardingAborts ==
    (lmods["top"].ear /\ lpc # "ready" /\ DirectForwarding("generateSharedLibrary")) =>
        (lpc = "died" /\ lfiles = {})

\* C19: an emitted fragment is marked LOCAL_UNINSTALLABLE_MODULE:=true
\* exactly when the module is not installable, is a target module and is
\* not a shared library.
C19_UninstallableMarking ==
    lpc = "emitted" =>
        (Line("LOCAL_UNINSTALLABLE_MODULE", << <<"true">> >>) \in Range(lfrag) <=>
            /\ ~lmods["top"].installable
            /\ lmods["top"].tgt = "target"
            /\ lmods["top"].kind # "sharedLibrary")

\* a target shared library that is not installable was emitted unmarked
C19_Witness ==
    /\ lpc = "emitted"
    /\ ~lmods["top"].installable
    /\ lmods["top"].tgt = "target"
    /\ lmods["top"].kind = "sharedLibrary"
    /\ ~Assigned("LOCAL_UNINSTALLABLE_MODULE")

MultilibLine == Line("LOCAL_MULTILIB", << <<"both">> >>) \in Range(lfrag)

\* base joined with the relative path
JoinedInstallPath ==
    IF lmods["top"].rel = "" THEN <<"$(TARGET_OUT)/bin">>
    ELSE <<"$(TARGET_OUT)/bin", "/", lmods["top"].rel>>

\* the lines of an installable executable
ExecutablePaths ==
    IF MultilibLine
    THEN /\ ValuesOf("LOCAL_MODULE_PATH_32") = {JoinedInstallPath}
         /\ ValuesOf("LOCAL_MODULE_PATH_64") = {JoinedInstallPath \o <<"64">>}
         /\ ~Assigned("LOCAL_MODULE_PATH")
    ELSE /\ ValuesOf("LOCAL_MODULE_PATH") = {<<"$(TARGET_OUT)/bin">>}
         /\ ValuesOf("LOCAL_MODULE_RELATIVE_PATH") = {<<lmods["top"].rel>>}
         /\ ~Assigned("LOCAL_MODULE_PATH_32")
         /\ ~Assigned("LOCAL_MODULE_PATH_64")

UnstrippedRule ==
    Assigned("LOCAL_UNSTRIPPED_PATH") <=>
        (~MultilibLine /\ lmods["top"].tgt = "target" /\ lmods["top"].kind = "binary")

\* C20 as claimed: every installable library or binary sets the _32 and
\* _64 paths if it is a multilib executable, and otherwise both
\* LOCAL_MODULE_PATH and LOCAL_MODULE_RELATIVE_PATH; LOCAL_UNSTRIPPED_PATH is
\* set exactly for non-multilib target executables.
C20_InstallPathsAllModules ==
    (lpc = "emitted" /\ lmods["top"].installable) =>
        /\ IF lmods["top"].kind = "binary" /\ MultilibLine
           THEN ExecutablePaths
           ELSE /\ ValuesOf("LOCAL_MODULE_PATH") = {<<"$(TARGET_OUT)/bin">>}
                /\ ValuesOf("LOCAL_MODULE_RELATIVE_PATH") = {<<lmods["top"].rel>>}
        /\ UnstrippedRule

\* C20: an installable executable sets the _32 and _64 paths if it is
\* multilib and otherwise LOCAL_MODULE_PATH and LOCAL_MODULE_RELATIVE_PATH;
\* an installable library sets LOCAL_MODULE_RELATIVE_PATH only;
\* LOCAL_UNSTRIPPED_PATH is set exactly for non-multilib target executables.
C20_InstallPaths ==
    (lpc = "emitted" /\ lmods["top"].installable) =>
        /\ IF lmods["top"].kind = "binary"
           THEN ExecutablePaths
           ELSE /\ ValuesOf("LOCAL_MODULE_RELATIVE_PATH") = {<<lmods["top"].rel>>}
                /\ ~Assigned("LOCAL_MODULE_PATH")
                /\ ~Assigned("LOCAL_MODULE_PATH_32")
                /\ ~Assigned("LOCAL_MODULE_PATH_64")
        /\ UnstrippedRule

\* an installable multilib executable with a relative path was emitted
C20_Witness ==
    /\ lpc = "emitted"
    /\ lmods["top"].installable
    /\ lmods["top"].kind = "binary"
    /\ lmods["top"].rel = "sub"
    /\ MultilibLine
    /\ Assigned("LOCAL_MODULE_PATH_64")

(***************************************************************************)
(* Resource emitter: claims                                                *)
(***************************************************************************)
\* the image of one character
CharImage(ch) ==
    CASE ch = "/" -> <<"_", "_">>
      [] ch \in {".", "(", ")", "$"} -> <<"_">>
      [] OTHER -> <<ch>>

\* the path rewritten character by character, in one pass
Rewritten(path) == ConcatAll([i \in DOMAIN path |-> CharImage(path[i])])

\* "a__b__c_conf_2_"
ExampleName ==
    <<"a", "_", "_", "b", "_", "_", "c", "_", "c", "o", "n", "f", "_", "2", "_">>

PrebuiltBlocks == {i \in DOMAIN rfrag : rfrag[i].class = "ETC"}

\* C18: the module name of every installed file is its path with every '/'
\* replaced by "__", every '.', '(', ')' and '$' by '_' and every other
\* character unchanged; "a/b/c.conf(2)" becomes "a__b__c_conf_2_".
C18_PathRewrite ==
    /\ pathToModuleName(ExamplePath) = ExampleName
    /\ rpc = "emitted" =>
          \A i \in PrebuiltBlocks : rfrag[i].module = Rewritten(rfrag[i].src)

\* a fragment for the example path and for the file "a$."
C18_Witness ==
    /\ rpc = "emitted"
    /\ \E i \in PrebuiltBlocks :
          rfrag[i].src = ExamplePath /\ rfrag[i].module = ExampleName
    /\ \E i \in PrebuiltBlocks :
          /\ rfrag[i].src = <<"a", "$", ".">>
          /\ rfrag[i].module = <<"a", "_", "_">>

\* C17: the LOCAL_MODULE names declared in one fragment are pairwise
\* distinct: the path-derived names of different files differ from each
\* other and from the declared name of the resource, which the name mapper
\* registers.
C17_UniqueModuleNames ==
    rpc = "emitted" =>
        \A i \in DOMAIN rfrag : \A j \in DOMAIN rfrag :
            i # j => rfrag[i].module # rfrag[j].module

(***************************************************************************)
(* Emission order: claims                                                  *)
(***************************************************************************)
\* the fields of every module once all emitters have run
FinalRecord == [d \in EoIds |-> IF emods[d].ear THEN recorded(d) ELSE NoRecord]

\* the fragment of m computed from the fields the modules have at the end
\* of the run, whatever the order of the emitters
ReferenceFragment(m) == eoFragment(m, FinalRecord)

SymversOf(d) == Join(kernelModOutputDir(d), "Module.symvers")

KernelFragments == {m \in DOMAIN efrag : EoKind(m) = "kernelModule"}

\* C21: the sources of an emitted kernel module are $(LOCAL_SRC_FILES)
\* followed by one path per extra_symbols dependency, the Module.symvers in
\* that dependency's output directory, in the order extra_symbols names
\* them; a required kernel module with an extra_symbols dependency that is
\* not a kernel module aborts the run when it is emitted and writes no
\* fragment.
C21_ExtraSymbols ==
    /\ \A m \in KernelFragments :
          /\ Len(efrag[m].sources) = 1 + Len(erefs[m])
          /\ \A i \in DOMAIN erefs[m] :
                efrag[m].sources[i + 1] = SymversOf(erefs[m][i])
    /\ \A m \in Range(eseq) :
          (EoKind(m) = "kernelModule" /\ emods[m].ear
              /\ \E d \in RefsOf(m) : EoKind(d) # "kernelModule")
          => (edied /\ m \notin DOMAIN efrag)

(***************************************************************************)
(* Generator rules: claims                                                 *)
(***************************************************************************)
GenInouts == {gmod.inouts[i] : i \in DOMAIN gmod.inouts}

RecipeRules(target) ==
    {j \in DOMAIN gmk : gmk[j].k = "rule" /\ gmk[j].recipe /\ gmk[j].target = target}

DependsOnFirst(out, first) ==
    \E j \in DOMAIN gmk :
        gmk[j] = MkRule(out, <<first>>, FALSE)

\* how often out was added to <name>_OUTPUTS after it was last cleared
TimesAdded(out) ==
    Cardinality({j \in DOMAIN gmk : gmk[j].k = "add" /\ gmk[j].target = out})

\* C22: in the Android fragment of a generator, of every inout only the
\* first output has a rule with a recipe, every other output and every
\* implicit output has a dependency line on that first output, and each of
\* them has been added to <name>_OUTPUTS exactly once.
C22_OutputWiring ==
    gpc = "android" =>
        /\ Cardinality({j \in DOMAIN gmk : gmk[j].k = "clear"}) = 1
        /\ \A j \in DOMAIN gmk : \A c \in DOMAIN gmk :
              (gmk[j].k = "add" /\ gmk[c].k = "clear") => c < j
        /\ \A io \in GenInouts :
              /\ Cardinality(RecipeRules(io.out[1])) = 1
              /\ TimesAdded(io.out[1]) = 1
              /\ \A j \in DOMAIN restOuts(io) :
                    /\ RecipeRules(restOuts(io)[j]) = {}
                    /\ DependsOnFirst(restOuts(io)[j], io.out[1])
                    /\ TimesAdded(restOuts(io)[j]) = 1
        /\ \A j \in DOMAIN gmk :
              gmk[j].k = "add" => \E io \in GenInouts : gmk[j].target \in Range(allOuts(io))

\* two inouts, the second with two outputs and an implicit output
C22_Witness ==
    /\ gpc = "android"
    /\ Len(gmod.inouts) = 2
    /\ Len(gmod.inouts[2].out) = 2
    /\ Len(gmod.inouts[2].implicitOuts) = 1
    /\ Cardinality({j \in DOMAIN gmk : gmk[j].k = "add"}) >= 4

\* the statements that declare f as an output or as an implicit output
DeclaredBy(f) ==
    {j \in DOMAIN gninja : f \in Range(gninja[j].outputs) \cup Range(gninja[j].implicitOutputs)}

DepfileWithOutputs == {io \in GenInouts : io.depfile # "" /\ Len(io.out) > 1}

\* the inouts the loop got through
RECURSIVE Processed(_)
Processed(ios) ==
    IF ios = <<>> THEN {}
    ELSE IF Head(ios).depfile # "" /\ Len(Head(ios).out) > 1 THEN {}
    ELSE {Head(ios)} \cup Processed(Tail(ios))

\* C27: the Ninja generator aborts exactly when some inout has a depfile
\* and several outputs; every implicit output of a processed inout is
\* declared by exactly one statement, a touch statement fed by the main
\* output when the inout has a depfile and the main statement when it has
\* not; a statement with a depfile has a single output.
C27_DepfileHandling ==
    gpc \in {"ninja", "died"} =>
        /\ gpc = "died" <=> DepfileWithOutputs # {}
        /\ \A io \in Processed(gmod.inouts) : \A f \in Range(io.implicitOuts) :
              /\ Cardinality(DeclaredBy(f)) = 1
              /\ \A j \in DeclaredBy(f) :
                    IF io.depfile # ""
                    THEN /\ gninja[j].rule = "touch"
                         /\ gninja[j].inputs = io.out
                         /\ f \in Range(gninja[j].outputs)
                    ELSE /\ gninja[j].rule = "gen"
                         /\ gninja[j].outputs = io.out
                         /\ f \in Range(gninja[j].implicitOutputs)
        /\ \A j \in DOMAIN gninja :
              gninja[j].depfile # "" =>
                  Len(gninja[j].outputs) + Len(gninja[j].implicitOutputs) <= 1

\* a run of two inouts with implicit outputs, one with a depfile and one
\* without
C27_Witness ==
    /\ gpc = "ninja"
    /\ Len(gmod.inouts) = 2
    /\ gmod.inouts[1].depfile # "" /\ Len(gmod.inouts[1].implicitOuts) = 1
    /\ gmod.inouts[2].depfile = "" /\ Len(gmod.inouts[2].implicitOuts) = 1
    /\ Len(gninja) = 3

\* the main statement of a processed inout
MainOf(io) == {j \in DOMAIN gninja : gninja[j].rule = "gen" /\ gninja[j].outputs = io.out}

\* C28: the rspfile argument of the main build statement of every inout is
\* that inout's own rspfile, none for an inout that declares none.
C28_OwnRspfile ==
    gpc = "ninja" =>
        \A io \in GenInouts : \A j \in MainOf(io) :
            gninja[j].args.rspfile = io.rspfile

(***************************************************************************)
(* Post-install command: claims                                            *)
(***************************************************************************)
\* C30: the text written for LOCAL_POST_INSTALL_CMD is the same for every
\* order in which ${tool} and ${out} are substituted.
C30_PostInstallDeterministic ==
    ppc = "emitted" =>
        \A keys \in Perms(postInstallKeys(pmod)) :
            pout[1].val = postInstallCmd(pmod, keys)

====
